---- MODULE Spec2Model ----
(***************************************************************************)
(* SSLProxyManager: the management UI (frontend/src) and the proxy core it *)
(* drives.  The UI is modelled from its source; the proxy core (a Rust     *)
(* backend that is not part of the source tree at hand) is modelled from   *)
(* the specification's sections 3 to 5.                                    *)
(*                                                                         *)
(* The module holds several specifications, one per subsystem; each one    *)
(* keeps the variables of the other subsystems at their idle values.       *)
(***************************************************************************)
EXTENDS Integers, Sequences, FiniteSets, TLC

(***************************************************************************)
(* Bounds of the model.                                                    *)
(***************************************************************************)
MaxListeners == 3
MaxStarts == 2
MaxEvents == 3
MaxClients == 2
MaxTicks == 4
MaxAccessTicks == 3
MaxAdds == 1
TicksPerSec == 2
MaxRequests == 4
MaxAccessRequests == 2
MaxRps == 2
MaxBurst == 2
MaxBan == 1
MaxDuration == 1
TableCap == 1
MaxRoutes == 2
MaxInflight == 2
MaxSnapshots == 3
MaxRules == 2
MaxRuleRoutes == 2
MaxUpstreams == 2
MaxEdits == 3
MaxSaves == 2
MaxStreamUpstreams == 2
MaxUpstreamServers == 2
MaxStreamServers == 2
MaxStreamEdits == 3
MaxStartRuns == 3
MaxRangeSec == 2
MaxPortEdits == 2
MaxCount == 2
MaxPicks == 2
MaxDateNow == 1
MaxSwitches == 2
MaxToggles == 3
MaxDashSteps == 4
MaxDashIds == 4
MaxSaveEdits == 1
MaxWsRules == 2
MaxWsRoutes == 2
MaxWsEdits == 2
MaxPathEdits == 2
MaxIdEdits == 4

(***************************************************************************)
(* Program constants.                                                      *)
(***************************************************************************)
MsPerSec == 1000
WindowSeconds == 1
MaxPort == 65535

VARIABLES
  \* ---- runtime supervisor (backend) and the start/stop part of the UI
  enabledL,     \* listeners enabled in the published snapshot
  lstate,       \* listener -> "down" | "starting" | "up" | "failed"
  supRunning,   \* what get_status reports
  events,       \* event channel core -> UI, in order of emission
  failCount,    \* listener -> number of bind failures so far
  uiStatus,     \* status.value
  starting,     \* starting.value
  startPc,      \* position of start(): idle | awaitStart | returned | rejected | poll
  notified,     \* listener -> number of error notifications shown for it
  started,      \* start_server has run at least once
  userStop,     \* the user asked for a stop after the latest start
  startsLeft    \* start cycles left (bound)

supVars == <<enabledL, lstate, supRunning, events, failCount, uiStatus,
             starting, startPc, notified, started, userStop, startsLeft>>

VARIABLES
  \* ---- request pipeline of the core: access control, rate limiter
  now,          \* the clock, in milliseconds
  accessCfg,    \* AccessConfig of the published snapshot
  rateCfg,      \* rate_limit of the HTTP rule: rps, burst, ban_seconds
  blStore,      \* persistent blacklist: client -> expires_at (-1: no entry)
  blCache,      \* in-memory blacklist snapshot, same shape
  rlTable,      \* rate-limit table: client -> bucket and ban
  lru,          \* clients present in rlTable, least recently used first
  lastReq,      \* what the latest request handler did
  servedLog,    \* client -> times of its served HTTP requests
  evictLog,     \* client -> times at which its table entry was evicted
  everAdded,    \* clients for which blacklist_add has completed
  reqLeft,      \* requests left (bound)
  ticksLeft,    \* clock ticks left (bound)
  \* ---- the access-control page of the UI
  addPc,        \* position of handleAdd: idle | validated | calling
  addForm,      \* addForm.value as read by the handleAdd in progress
  addCall,      \* arguments of the AddBlacklistEntry call in flight
  adding,       \* adding.value
  blacklistUI,  \* blacklist.value: the rows of the table
  addsLeft      \* submissions of the add dialog left (bound)

reqVars == <<now, accessCfg, rateCfg, blStore, blCache, rlTable, lru, lastReq,
             servedLog, evictLog, everAdded, reqLeft, ticksLeft>>
acVars == <<addPc, addForm, addCall, adding, blacklistUI, addsLeft>>

(***************************************************************************)
(* Runtime supervisor (4.K) and the UI's start/stop handling (main.ts).    *)
(***************************************************************************)
Listeners == 1..MaxListeners

StatusEvent(s) == [type |-> "status", status |-> s, listen_addr |-> 0]
ServerStartError(l) == [type |-> "server-start-error", status |-> "", listen_addr |-> l]

SupInit ==
  /\ enabledL \in SUBSET Listeners
  /\ lstate = [l \in Listeners |-> "down"]
  /\ supRunning = FALSE
  /\ events = <<>>
  /\ failCount = [l \in Listeners |-> 0]
  /\ uiStatus = "stopped"
  /\ starting = FALSE
  /\ startPc = "idle"
  /\ notified = [l \in Listeners |-> 0]
  /\ started = FALSE
  /\ userStop = FALSE
  /\ startsLeft = MaxStarts

SupIdle ==
  /\ enabledL = {}
  /\ lstate = [l \in Listeners |-> "down"]
  /\ supRunning = FALSE
  /\ events = <<>>
  /\ failCount = [l \in Listeners |-> 0]
  /\ uiStatus = "stopped"
  /\ starting = FALSE
  /\ startPc = "idle"
  /\ notified = [l \in Listeners |-> 0]
  /\ started = FALSE
  /\ userStop = FALSE
  /\ startsLeft = 0

\* Supervisor.start: every enabled listener is started, in parallel.
SupervisorStart ==
  /\ lstate' = [l \in Listeners |->
                  IF supRunning THEN lstate[l]
                  ELSE IF l \in enabledL THEN "starting" ELSE "down"]
  /\ supRunning' = TRUE
  /\ started' = TRUE
  /\ userStop' = FALSE

\* Supervisor.stop: every listener stops accepting and closes.
SupervisorStop ==
  /\ lstate' = [l \in Listeners |-> "down"]
  /\ supRunning' = FALSE

\* A listener binds its socket.
ListenerBindOk(l) ==
  /\ lstate[l] = "starting"
  /\ lstate' = [lstate EXCEPT ![l] = "up"]
  /\ UNCHANGED <<enabledL, supRunning, events, failCount, uiStatus, starting,
                 startPc, notified, started, userStop, startsLeft>>

\* What a failed bind does to the listeners: the failed one only.
BindFailEffect(l) == [lstate EXCEPT ![l] = "failed"]

\* A listener fails to bind: BindError, reported as ServerStartError.
ListenerBindFail(l) ==
  /\ lstate[l] = "starting"
  /\ Len(events) < MaxEvents
  /\ lstate' = BindFailEffect(l)
  /\ events' = Append(events, ServerStartError(l))
  /\ failCount' = [failCount EXCEPT ![l] = @ + 1]
  /\ UNCHANGED <<enabledL, supRunning, uiStatus, starting, startPc, notified,
                 started, userStop, startsLeft>>

\* start(): the guard against a second click, then the StartServer call.
UIStart ==
  /\ startPc = "idle"
  /\ ~starting
  /\ startsLeft > 0
  /\ starting' = TRUE
  /\ startPc' = "awaitStart"
  /\ startsLeft' = startsLeft - 1
  /\ UNCHANGED <<enabledL, lstate, supRunning, events, failCount, uiStatus,
                 notified, started, userStop>>

\* start_server on the backend: asynchronous start, returns Ok at once.
BackendStartServer ==
  /\ startPc = "awaitStart"
  /\ Len(events) < MaxEvents
  /\ SupervisorStart
  /\ events' = Append(events, StatusEvent("running"))
  /\ startPc' = "returned"
  /\ UNCHANGED <<enabledL, failCount, uiStatus, starting, notified, startsLeft>>

\* start_server rejected (the invoke fails).
BackendStartRejected ==
  /\ startPc = "awaitStart"
  /\ startPc' = "rejected"
  /\ UNCHANGED <<enabledL, lstate, supRunning, events, failCount, uiStatus,
                 starting, notified, started, userStop, startsLeft>>

\* start() after the await: status 'stopped', then the polling loop.
UIStartResume ==
  /\ startPc = "returned"
  /\ uiStatus' = "stopped"
  /\ startPc' = "poll"
  /\ UNCHANGED <<enabledL, lstate, supRunning, events, failCount, starting,
                 notified, started, userStop, startsLeft>>

\* start(): catch and finally after a rejected StartServer.
UIStartFailed ==
  /\ startPc = "rejected"
  /\ starting' = FALSE
  /\ startPc' = "idle"
  /\ UNCHANGED <<enabledL, lstate, supRunning, events, failCount, uiStatus,
                 notified, started, userStop, startsLeft>>

GetStatus == IF supRunning THEN "running" ELSE "stopped"

\* start(): one round of the polling loop.
UIStartPoll ==
  /\ startPc = "poll"
  /\ uiStatus' = GetStatus
  /\ IF GetStatus = "running"
       THEN starting' = FALSE /\ startPc' = "idle"
       ELSE UNCHANGED <<starting, startPc>>
  /\ UNCHANGED <<enabledL, lstate, supRunning, events, failCount, notified,
                 started, userStop, startsLeft>>

\* start(): the 5 s deadline passes.
UIStartTimeout ==
  /\ startPc = "poll"
  /\ starting' = FALSE
  /\ startPc' = "idle"
  /\ UNCHANGED <<enabledL, lstate, supRunning, events, failCount, uiStatus,
                 notified, started, userStop, startsLeft>>

\* stop(): StopServer, then status 'stopped'.
UIStop ==
  /\ supRunning
  /\ Len(events) < MaxEvents
  /\ SupervisorStop
  /\ userStop' = TRUE
  /\ events' = Append(events, StatusEvent("stopped"))
  /\ uiStatus' = "stopped"
  /\ UNCHANGED <<enabledL, failCount, starting, startPc, notified, started,
                 startsLeft>>

\* The 'status' event handler.
OnStatus(e) ==
  /\ uiStatus' = e.status
  /\ UNCHANGED <<enabledL, lstate, supRunning, failCount, starting, startPc,
                 notified, started, userStop, startsLeft>>

\* A handler that also stops the service on a start error.
OnServerStartErrorStops(e) ==
  /\ notified' = [notified EXCEPT ![e.listen_addr] = @ + 1]
  /\ uiStatus' = "stopped"
  /\ SupervisorStop
  /\ UNCHANGED <<enabledL, failCount, starting, startPc, started, userStop,
                 startsLeft>>

\* The 'server-start-error' event handler: one notification naming the
\* listener, and the displayed status set to 'stopped'.
OnServerStartError(e) ==
  /\ notified' = [notified EXCEPT ![e.listen_addr] = @ + 1]
  /\ uiStatus' = "stopped"
  /\ UNCHANGED <<enabledL, lstate, supRunning, failCount, starting, startPc,
                 started, userStop, startsLeft>>

UIOnStatusEvent ==
  /\ events # <<>>
  /\ Head(events).type = "status"
  /\ events' = Tail(events)
  /\ OnStatus(Head(events))

UIOnStartErrorEvent ==
  /\ events # <<>>
  /\ Head(events).type = "server-start-error"
  /\ events' = Tail(events)
  /\ OnServerStartError(Head(events))

SupNext ==
  \/ UIStart
  \/ BackendStartServer
  \/ BackendStartRejected
  \/ UIStartResume
  \/ UIStartFailed
  \/ UIStartPoll
  \/ UIStartTimeout
  \/ UIStop
  \/ UIOnStatusEvent
  \/ UIOnStartErrorEvent
  \/ \E l \in Listeners : ListenerBindOk(l)
  \/ \E l \in Listeners : ListenerBindFail(l)


(***************************************************************************)
(* Request pipeline of the core: access control (4.F), then the rate       *)
(* limiter (4.E).  Time is in milliseconds; it advances by one tick.       *)
(***************************************************************************)
Clients == 1..MaxClients
Protocols == {"http", "ws", "stream"}
TickMs == MsPerSec \div TicksPerSec
NoEntry == -1

\* Odd clients have an RFC1918 address, even ones a public address.
IsLan(ip) == ip % 2 = 1

\* The core's clock in whole seconds since the epoch.
NowSec == now \div MsPerSec

\* Invariant 7 of the data model: active iff expires_at = 0 or now < expires_at.
EntryActive(e, nowSec) == e # NoEntry /\ (e = 0 \/ nowSec < e)

Min(a, b) == IF a < b THEN a ELSE b

\* A blacklist_add that leaves the in-memory snapshot as it was.
\* Mutations invalidate the in-memory snapshot and rebuild it from the store.
RebuildCache(store) == store

\* blacklist_add(ip, reason, duration_sec): expires_at 0 is permanent.
BlacklistAdd(ip, duration) ==
  /\ blStore' = [blStore EXCEPT ![ip] =
                   IF duration = 0 THEN 0 ELSE NowSec + duration]
  /\ blCache' = RebuildCache(blStore')
  /\ everAdded' = everAdded \cup {ip}

\* blacklist_remove(ip)
BlacklistRemove(ip) ==
  /\ blStore' = [blStore EXCEPT ![ip] = NoEntry]
  /\ blCache' = RebuildCache(blStore')

\* The background sweep evicts the expired entries of the snapshot.
BlacklistSweep ==
  /\ \E ip \in Clients : blCache[ip] # NoEntry /\ ~EntryActive(blCache[ip], NowSec)
  /\ blCache' = [ip \in Clients |->
                   IF EntryActive(blCache[ip], NowSec) THEN blCache[ip] ELSE NoEntry]
  /\ UNCHANGED <<now, accessCfg, rateCfg, blStore, rlTable, lru, lastReq,
                 servedLog, evictLog, everAdded, reqLeft, ticksLeft>>
  /\ UNCHANGED acVars

\* A decision that consults the whitelist rules before the blacklist.
\* 4.F: (1) blacklist, (2) allow_all_public, (3) LAN, (4) whitelist, (5) deny.
AccessDecision(ip) ==
  IF EntryActive(blCache[ip], NowSec) THEN "DENY"
  ELSE IF accessCfg.allow_all_public THEN "ALLOW"
  ELSE IF IsLan(ip) /\ accessCfg.allow_all_lan THEN "ALLOW"
  ELSE IF ip \in accessCfg.whitelist THEN "ALLOW"
  ELSE "DENY"

\* Tokens are counted in thousandths; a request costs one token.
TokenCost == MsPerSec
FreshEntry == [present |-> TRUE, tokens |-> rateCfg.burst * TokenCost,
               last |-> now, banUntil |-> NoEntry]
AbsentEntry == [present |-> FALSE, tokens |-> 0, last |-> 0, banUntil |-> NoEntry]

Without(seq, x) == SelectSeq(seq, LAMBDA y : y # x)

\* The table is size-bounded: the least recently used entry makes room.
Victims(ip) ==
  IF ~rlTable[ip].present /\ Len(lru) >= TableCap THEN {Head(lru)} ELSE {}

\* A bucket refilled to more than its capacity.
\* Refill at rps tokens per second since the last visit, up to burst.
Refill(e) == Min(rateCfg.burst * TokenCost, e.tokens + rateCfg.rps * (now - e.last))

Banned(e) == e.banUntil # NoEntry /\ now < e.banUntil

\* A limiter that charges banned clients as well.
RateLimitedEntryChargesBanned(e) ==
  IF Refill(e) >= TokenCost
    THEN [e EXCEPT !.tokens = Refill(e) - TokenCost, !.last = now, !.banUntil = NoEntry]
    ELSE [e EXCEPT !.tokens = Refill(e), !.last = now,
                   !.banUntil = IF rateCfg.ban_seconds > 0
                                  THEN now + rateCfg.ban_seconds * MsPerSec
                                  ELSE NoEntry]

\* 4.E: a banned client is rejected without taking tokens; otherwise one
\* token is deducted, and a client short of tokens is banned.
RateLimitedEntry(e) ==
  IF Banned(e) THEN e
  ELSE IF Refill(e) >= TokenCost
    THEN [e EXCEPT !.tokens = Refill(e) - TokenCost, !.last = now, !.banUntil = NoEntry]
    ELSE [e EXCEPT !.tokens = Refill(e), !.last = now,
                   !.banUntil = IF rateCfg.ban_seconds > 0
                                  THEN now + rateCfg.ban_seconds * MsPerSec
                                  ELSE NoEntry]

RateLimitVerdict(e) ==
  IF Banned(e) THEN "banned"
  ELSE IF Refill(e) >= TokenCost THEN "pass" ELSE "limited"

\* The rate limiter on one request of ip.
RateLimit(ip) ==
  LET e == IF rlTable[ip].present THEN rlTable[ip] ELSE FreshEntry
      out == Victims(ip)
  IN /\ rlTable' = [c \in Clients |->
                      IF c = ip THEN RateLimitedEntry(e)
                      ELSE IF c \in out THEN AbsentEntry ELSE rlTable[c]]
     /\ lru' = Append(SelectSeq(lru, LAMBDA y : y # ip /\ y \notin out), ip)
     /\ evictLog' = [c \in Clients |->
                       IF c \in out THEN evictLog[c] \cup {now} ELSE evictLog[c]]
     /\ servedLog' = [servedLog EXCEPT ![ip] =
                        IF RateLimitVerdict(e) = "pass" THEN Append(@, now) ELSE @]
     /\ lastReq' = [ip |-> ip, proto |-> "http",
                    blacklisted |-> EntryActive(blStore[ip], NowSec),
                    added |-> ip \in everAdded,
                    outcome |-> RateLimitVerdict(e),
                    limiter |-> TRUE,
                    banned |-> Banned(e),
                    tokensBefore |-> e.tokens, tokensAfter |-> RateLimitedEntry(e).tokens,
                    banBefore |-> e.banUntil, banAfter |-> RateLimitedEntry(e).banUntil]

\* A request that stops at the access-control step.
DenyAtAccess(ip, proto) ==
  /\ lastReq' = [ip |-> ip, proto |-> proto,
                 blacklisted |-> EntryActive(blStore[ip], NowSec),
                 added |-> ip \in everAdded,
                 outcome |-> "denied",
                 limiter |-> FALSE,
                 banned |-> FALSE,
                 tokensBefore |-> rlTable[ip].tokens, tokensAfter |-> rlTable[ip].tokens,
                 banBefore |-> rlTable[ip].banUntil, banAfter |-> rlTable[ip].banUntil]
  /\ UNCHANGED <<rlTable, lru, evictLog, servedLog>>

\* A request that passes both steps without meeting the limiter.
PassUnlimited(ip, proto) ==
  /\ lastReq' = [ip |-> ip, proto |-> proto,
                 blacklisted |-> EntryActive(blStore[ip], NowSec),
                 added |-> ip \in everAdded,
                 outcome |-> "pass",
                 limiter |-> FALSE,
                 banned |-> FALSE,
                 tokensBefore |-> rlTable[ip].tokens, tokensAfter |-> rlTable[ip].tokens,
                 banBefore |-> rlTable[ip].banUntil, banAfter |-> rlTable[ip].banUntil]
  /\ UNCHANGED <<rlTable, lru, evictLog, servedLog>>

\* A handler that meets the rate limiter before access control.
PipelineLimiterFirst(ip, proto) ==
  IF proto = "http"
    THEN /\ RateLimit(ip)
    ELSE IF accessCfg.enabled[proto] /\ AccessDecision(ip) = "DENY"
      THEN DenyAtAccess(ip, proto)
      ELSE PassUnlimited(ip, proto)

\* 4.H: parse, access control (by the protocol's toggle), rate limit (HTTP
\* listeners), then match and forward.
Pipeline(ip, proto) ==
  IF accessCfg.enabled[proto] /\ AccessDecision(ip) = "DENY"
    THEN DenyAtAccess(ip, proto)
    ELSE IF proto = "http"
      THEN RateLimit(ip)
      ELSE PassUnlimited(ip, proto)

HandleRequest(ip, proto) ==
  /\ reqLeft > 0
  /\ reqLeft' = reqLeft - 1
  /\ Pipeline(ip, proto)
  /\ UNCHANGED <<now, accessCfg, rateCfg, blStore, blCache, everAdded, ticksLeft>>
  /\ UNCHANGED acVars

Tick ==
  /\ ticksLeft > 0
  /\ ticksLeft' = ticksLeft - 1
  /\ now' = now + TickMs
  /\ UNCHANGED <<accessCfg, rateCfg, blStore, blCache, rlTable, lru, lastReq,
                 servedLog, evictLog, everAdded, reqLeft>>
  /\ UNCHANGED acVars


(***************************************************************************)
(* The access-control page (AccessControl.vue): the blacklist table and    *)
(* the add dialog.                                                         *)
(***************************************************************************)
InvalidIp == 0
NoCall == [ip |-> InvalidIp, duration |-> 0]
EmptyForm == [ip |-> InvalidIp, durationType |-> "permanent", expiresAt |-> NoEntry]

\* Math.ceil(a / b) for b > 0
CeilDiv(a, b) == -((-a) \div b)

\* addRules: the ip pattern, and for a temporary entry an expiry in the future.
FormValid(f) ==
  /\ f.ip # InvalidIp
  /\ f.durationType = "temporary" => (f.expiresAt # NoEntry /\ f.expiresAt > now)

\* handleAdd up to the form validation.  db is what GetMetricsDBStatus
\* answers; the handler returns early unless the store is enabled and
\* initialized and the form is valid.
HandleAddClick(f, db) ==
  /\ addPc = "idle"
  /\ addsLeft > 0
  /\ addsLeft' = addsLeft - 1
  /\ IF db = "ok" /\ FormValid(f)
       THEN addForm' = f /\ addPc' = "validated"
       ELSE UNCHANGED <<addForm, addPc>>
  /\ UNCHANGED <<addCall, adding, blacklistUI>>
  /\ UNCHANGED reqVars

DurationSeconds(f) ==
  IF f.durationType = "temporary" THEN CeilDiv(f.expiresAt - now, MsPerSec) ELSE 0

\* A handleAdd that never finds the expiry passed.
ExpiryPassedNever(seconds) == FALSE

\* handleAdd: if (durationSeconds <= 0) { warning; adding = false; return }.
ExpiryPassed(seconds) == seconds <= 0

\* handleAdd: the duration, then the AddBlacklistEntry call.
HandleAddCompute ==
  /\ addPc = "validated"
  /\ IF addForm.durationType = "temporary" /\ ExpiryPassed(DurationSeconds(addForm))
       THEN /\ adding' = FALSE
            /\ addPc' = "idle"
            /\ UNCHANGED addCall
       ELSE /\ adding' = TRUE
            /\ addCall' = [ip |-> addForm.ip, duration |-> DurationSeconds(addForm)]
            /\ addPc' = "calling"
  /\ UNCHANGED <<addForm, blacklistUI, addsLeft>>
  /\ UNCHANGED reqVars

\* add_blacklist_entry on the backend.
BackendBlacklistAdd ==
  /\ addPc = "calling"
  /\ BlacklistAdd(addCall.ip, addCall.duration)
  /\ addPc' = "added"
  /\ UNCHANGED <<now, accessCfg, rateCfg, rlTable, lru, lastReq, servedLog,
                 evictLog, reqLeft, ticksLeft>>
  /\ UNCHANGED <<addForm, addCall, adding, blacklistUI, addsLeft>>

\* add_blacklist_entry rejected: the catch and finally of handleAdd.
HandleAddRejected ==
  /\ addPc = "calling"
  /\ addPc' = "idle"
  /\ adding' = FALSE
  /\ addCall' = NoCall
  /\ UNCHANGED <<addForm, blacklistUI, addsLeft>>
  /\ UNCHANGED reqVars

\* handleAdd after the call: the form is reset and the list is read again.
HandleAddDone ==
  /\ addPc = "added"
  /\ addPc' = "idle"
  /\ adding' = FALSE
  /\ addForm' = EmptyForm
  /\ addCall' = NoCall
  /\ blacklistUI' = blStore
  /\ UNCHANGED addsLeft
  /\ UNCHANGED reqVars

\* handleRemove: RemoveBlacklistEntry, then the list is read again.
HandleRemove(ip) ==
  /\ blacklistUI[ip] # NoEntry
  /\ BlacklistRemove(ip)
  /\ blacklistUI' = blStore'
  /\ UNCHANGED <<now, accessCfg, rateCfg, rlTable, lru, lastReq, servedLog,
                 evictLog, everAdded, reqLeft, ticksLeft>>
  /\ UNCHANGED <<addPc, addForm, addCall, adding, addsLeft>>

\* refreshBlacklist
RefreshBlacklist ==
  /\ blacklistUI # blStore
  /\ blacklistUI' = blStore
  /\ UNCHANGED <<addPc, addForm, addCall, adding, addsLeft>>
  /\ UNCHANGED reqVars

\* An isExpired that counts the instant of expiry as expired.
\* isExpired: Date.now() / 1000 > expiresAt
IsExpired(expiresAt) ==
  IF expiresAt = 0 THEN FALSE ELSE now > expiresAt * MsPerSec

\* The expires_at column of the table.
ExpiryTag(expiresAt) ==
  IF expiresAt = 0 THEN "permanent"
  ELSE IF IsExpired(expiresAt) THEN "expired" ELSE "valid"

Forms ==
  [ip : Clients \cup {InvalidIp}, durationType : {"permanent"}, expiresAt : {NoEntry}]
  \cup [ip : Clients, durationType : {"temporary"},
        expiresAt : {NoEntry} \cup {MaxDuration * MsPerSec, MaxDuration * MsPerSec + TickMs}]

AccessConfigs ==
  [enabled : [Protocols -> BOOLEAN], allow_all_public : BOOLEAN,
   allow_all_lan : BOOLEAN, whitelist : {{}, {1}}]

RateConfigs == [rps : 1..MaxRps, burst : 1..MaxBurst, ban_seconds : 0..MaxBan]

NoRequest == [ip |-> InvalidIp, proto |-> "http", blacklisted |-> FALSE,
              added |-> FALSE, outcome |-> "none", limiter |-> FALSE,
              banned |-> FALSE, tokensBefore |-> 0, tokensAfter |-> 0,
              banBefore |-> NoEntry, banAfter |-> NoEntry]

ReqInitWith(acls, rates, n, t, a) ==
  /\ now = 0
  /\ accessCfg \in acls
  /\ rateCfg \in rates
  /\ blStore = [c \in Clients |-> NoEntry]
  /\ blCache = [c \in Clients |-> NoEntry]
  /\ rlTable = [c \in Clients |-> AbsentEntry]
  /\ lru = <<>>
  /\ lastReq = NoRequest
  /\ servedLog = [c \in Clients |-> <<>>]
  /\ evictLog = [c \in Clients |-> {}]
  /\ everAdded = {}
  /\ reqLeft = n
  /\ ticksLeft = t
  /\ addPc = "idle"
  /\ addForm = EmptyForm
  /\ addCall = NoCall
  /\ adding = FALSE
  /\ blacklistUI = [c \in Clients |-> NoEntry]
  /\ addsLeft = a

DefaultAccess == [enabled |-> [p \in Protocols |-> TRUE], allow_all_public |-> FALSE,
                  allow_all_lan |-> TRUE, whitelist |-> {}]
DefaultRate == [rps |-> 1, burst |-> 1, ban_seconds |-> 0]

ReqIdle == ReqInitWith({DefaultAccess}, {DefaultRate}, 0, 0, 0)

BlacklistNext ==
  \/ \E f \in Forms, db \in {"ok", "off"} : HandleAddClick(f, db)
  \/ HandleAddCompute
  \/ BackendBlacklistAdd
  \/ HandleAddRejected
  \/ HandleAddDone
  \/ \E ip \in Clients : HandleRemove(ip)
  \/ RefreshBlacklist
  \/ BlacklistSweep

TrafficNext ==
  \/ \E ip \in Clients, proto \in Protocols : HandleRequest(ip, proto)
  \/ Tick

ReqNext ==
  \/ TrafficNext
  \/ BlacklistNext

(***************************************************************************)
(* Route matcher (4.C).  A path is a sequence of characters beginning with *)
(* "/", a host a sequence of labels; a route's host is unset (<<>>), exact *)
(* or a "*" label followed by a suffix.                                    *)
(***************************************************************************)
VARIABLES
  routes,       \* ordered routes of the listener in the published snapshot
  matchReq,     \* the request last given to the matcher
  matchResult,  \* Match{route, matched_prefix} or NoMatch
  matchPc       \* "idle" until the matcher has answered the request, then "done"

matchVars == <<routes, matchReq, matchResult, matchPc>>

RoutePaths == {<<"/">>, <<"/", "a">>, <<"/", "a", "b">>}
RequestPaths == {<<"/", "a">>, <<"/", "a", "b">>, <<"/", "b">>}
RouteHosts == {<<>>, <<"a", "x">>, <<"*", "x">>}
RequestHosts == {<<"a", "x">>, <<"b", "x">>, <<"b", "y">>}
Methods == {"GET", "POST"}

RouteSet ==
  [enabled : BOOLEAN, host : RouteHosts, methods : {{}, {"GET"}},
   header : {"", "*", "v"}, path : RoutePaths]

RequestSet ==
  [host : RequestHosts, method : Methods, header : {"", "v", "w"},
   path : RequestPaths]

IsPrefix(p, q) == Len(p) <= Len(q) /\ SubSeq(q, 1, Len(p)) = p

IsSuffix(p, q) == Len(p) <= Len(q) /\ SubSeq(q, Len(q) - Len(p) + 1, Len(q)) = p

HostMatches(pattern, host) ==
  \/ pattern = <<>>
  \/ pattern = host
  \/ /\ pattern[1] = "*"
     /\ Len(host) >= Len(pattern)
     /\ IsSuffix(Tail(pattern), host)

MethodMatches(methods, m) == methods = {} \/ m \in methods

HeaderMatches(required, value) ==
  \/ required = ""
  \/ required = "*" /\ value # ""
  \/ required # "*" /\ value = required

Survives(rt, req) ==
  /\ rt.enabled
  /\ HostMatches(rt.host, req.host)
  /\ MethodMatches(rt.methods, req.method)
  /\ HeaderMatches(rt.header, req.header)
  /\ IsPrefix(rt.path, req.path)

NoMatch == [route |-> 0, matched_prefix |-> <<>>]

BetterOrEqual(rs, i, best) == best = 0 \/ Len(rs[i].path) >= Len(rs[best].path)

Better(rs, i, best) == best = 0 \/ Len(rs[i].path) > Len(rs[best].path)

RECURSIVE Scan(_, _, _, _)
Scan(rs, req, i, best) ==
  IF i > Len(rs) THEN best
  ELSE IF Survives(rs[i], req) /\ Better(rs, i, best)
       THEN Scan(rs, req, i + 1, i)
       ELSE Scan(rs, req, i + 1, best)

MatchRoute(rs, req) ==
  LET b == Scan(rs, req, 1, 0)
  IN  IF b = 0 THEN NoMatch ELSE [route |-> b, matched_prefix |-> rs[b].path]

RouteLists == UNION {[1..n -> RouteSet] : n \in 0..MaxRoutes}

NoMatchRequest == [host |-> <<"a", "x">>, method |-> "GET", header |-> "", path |-> <<"/", "a">>]

MatchInitWith(lists) ==
  /\ routes \in lists
  /\ matchReq = NoMatchRequest
  /\ matchResult = NoMatch
  /\ matchPc = "idle"

MatchIdle == MatchInitWith({<<>>})

Match(req) ==
  /\ matchPc = "idle"
  /\ matchReq' = req
  /\ matchResult' = MatchRoute(routes, req)
  /\ matchPc' = "done"
  /\ UNCHANGED routes

MatchNext == \E req \in RequestSet : Match(req)

(***************************************************************************)
(* Snapshot publication (3, 4.K, 5): the published Config sits behind an   *)
(* atomically swapped pointer; each request clones a handle at its start.  *)
(***************************************************************************)
VARIABLES
  snapshots,    \* every snapshot published so far; the pointer is the last
  listenerGen,  \* generation of the listener: a new one per changed bind
  inflight      \* request -> phase, captured handle, bindings made so far

snapVars == <<snapshots, listenerGen, inflight>>

Requests == 1..MaxInflight
Unbound == 0
SnapshotSet == [bind : 1..2, route : 1..2, auth : 1..2, transformer : 1..2]
FirstSnapshot == [bind |-> 1, route |-> 1, auth |-> 1, transformer |-> 1]

IdleRequest == [phase |-> "idle", handle |-> Unbound, acceptedAt |-> Unbound,
                gen |-> Unbound, route |-> Unbound, auth |-> Unbound,
                transformer |-> Unbound]

Pointer == Len(snapshots)

SnapInitWith(n) ==
  /\ snapshots = <<FirstSnapshot>>
  /\ listenerGen = 1
  /\ inflight = [r \in 1..n |-> IdleRequest]

SnapIdle == SnapInitWith(0)

\* apply(new_snapshot): unchanged bind parameters hand the snapshot to the
\* existing listener; changed ones start a new listener and drain the old.
Apply(cfg) ==
  /\ Len(snapshots) < MaxSnapshots
  /\ cfg # snapshots[Pointer]
  /\ snapshots' = Append(snapshots, cfg)
  /\ listenerGen' = IF cfg.bind = snapshots[Pointer].bind
                    THEN listenerGen ELSE listenerGen + 1
  /\ UNCHANGED inflight

Accept(r) ==
  /\ inflight[r].phase = "idle"
  /\ inflight' = [inflight EXCEPT ![r] =
                    [@ EXCEPT !.phase = "accepted", !.handle = Pointer,
                              !.acceptedAt = Pointer, !.gen = listenerGen]]
  /\ UNCHANGED <<snapshots, listenerGen>>

ViewTorn(r) == snapshots[Pointer]

View(r) == snapshots[inflight[r].handle]

BindRoute(r) ==
  /\ inflight[r].phase = "accepted"
  /\ inflight' = [inflight EXCEPT ![r] =
                    [@ EXCEPT !.phase = "routed", !.route = View(r).route]]
  /\ UNCHANGED <<snapshots, listenerGen>>

BindAuth(r) ==
  /\ inflight[r].phase = "routed"
  /\ inflight' = [inflight EXCEPT ![r] =
                    [@ EXCEPT !.phase = "authed", !.auth = View(r).auth]]
  /\ UNCHANGED <<snapshots, listenerGen>>

BindTransformer(r) ==
  /\ inflight[r].phase = "authed"
  /\ inflight' = [inflight EXCEPT ![r] =
                    [@ EXCEPT !.phase = "transformed",
                              !.transformer = View(r).transformer]]
  /\ UNCHANGED <<snapshots, listenerGen>>

Complete(r) ==
  /\ inflight[r].phase = "transformed"
  /\ inflight' = [inflight EXCEPT ![r] = [@ EXCEPT !.phase = "done"]]
  /\ UNCHANGED <<snapshots, listenerGen>>

\* The grace period of a drained (replaced) listener runs out.
GraceExpired(r) ==
  /\ inflight[r].phase \in {"accepted", "routed", "authed", "transformed"}
  /\ inflight[r].gen < listenerGen
  /\ inflight' = [inflight EXCEPT ![r] = [@ EXCEPT !.phase = "aborted"]]
  /\ UNCHANGED <<snapshots, listenerGen>>

SnapNext ==
  \/ \E cfg \in SnapshotSet : Apply(cfg)
  \/ \E r \in Requests : Accept(r)
  \/ \E r \in Requests : BindRoute(r)
  \/ \E r \in Requests : BindAuth(r)
  \/ \E r \in Requests : BindTransformer(r)
  \/ \E r \in Requests : Complete(r)
  \/ \E r \in Requests : GraceExpired(r)

(***************************************************************************)
(* HTTP rule editor (ConfigCard.vue).  A string is a sequence of           *)
(* characters, so that trimming and path normalisation are computed; an    *)
(* optional boolean of the editor is "undefined", "true" or "false".       *)
(* Fields of a route that the editor copies through unchanged and never    *)
(* validates (follow_redirects, exclude_basic_auth, url_rewrite_rules,     *)
(* remove_headers, request_body_replace, rate limits) are left out.        *)
(***************************************************************************)
VARIABLES
  loaded,       \* rules of the configuration GetConfig returns to the editor
  rules,        \* the editor's rules (rules.value)
  mounted,      \* onMounted has filled the editor from the loaded rules
  edited,       \* the user has changed the editor since it was filled
  editsLeft,    \* edits the user may still make
  saving,       \* main.ts: saving.value
  lastSave,     \* last run of handleSaveConfig: editor input, outcome
  saveCalls,    \* configurations passed to SaveConfig, in order
  dateNow       \* Date.now() as the editor's handlers read it

cfgVars == <<loaded, rules, mounted, edited, editsLeft, saving, lastSave, saveCalls,
             dateNow>>

RECURSIVE TrimLeft(_)
TrimLeft(s) == IF s # <<>> /\ Head(s) = " " THEN TrimLeft(Tail(s)) ELSE s

RECURSIVE TrimRight(_)
TrimRight(s) ==
  IF s # <<>> /\ s[Len(s)] = " " THEN TrimRight(SubSeq(s, 1, Len(s) - 1)) ELSE s

Trim(s) == TrimRight(TrimLeft(s))

MapSeq(F(_), s) == [i \in 1..Len(s) |-> F(s[i])]

Tristate == {"undefined", "true", "false"}

OptBool(b) == IF b THEN "true" ELSE "false"

\* v !== undefined ? !!v : true
DefaultTrue(v) == v # "false"

DefaultListenAddr == <<"0">>

\* A normalisation that trims and leaves the rest to the user.
normalizePathTrimOnly(p) == Trim(p)

normalizePath(p) ==
  LET v == Trim(p)
  IN  IF v = <<>> THEN <<"/">>
      ELSE IF Head(v) = "/" THEN v ELSE <<"/">> \o v

PlaceholderRoute ==
  [ID |-> <<>>, Enabled |-> "undefined", Host |-> <<>>, Path |-> <<"/">>,
   ProxyPassPath |-> <<>>, SetHeadersList |-> <<>>, StaticDir |-> <<>>,
   ResponseBodyReplace |-> <<>>, Upstreams |-> <<[URL |-> <<>>, Weight |-> 1]>>]

PlaceholderRule ==
  [ID |-> <<>>, Enabled |-> "undefined", ListenAddr |-> DefaultListenAddr,
   ListenAddrs |-> <<DefaultListenAddr>>, SSLEnable |-> FALSE,
   CertFile |-> <<>>, KeyFile |-> <<>>, BasicAuthEnable |-> FALSE,
   BasicAuthUsername |-> <<>>, BasicAuthPassword |-> <<>>,
   Routes |-> <<PlaceholderRoute>>]

LoadBodyReplace(r) ==
  [Find |-> r.find, Replace |-> r.replace, UseRegex |-> r.use_regex,
   Enabled |-> OptBool(r.enabled)]

LoadUpstream(u) == [URL |-> u.url, Weight |-> IF u.weight = 0 THEN 1 ELSE u.weight]

LoadRoute(rt) ==
  [ID |-> rt.id,
   Enabled |-> OptBool(rt.enabled),
   Host |-> rt.host,
   Path |-> IF rt.path = <<>> THEN <<"/">> ELSE rt.path,
   ProxyPassPath |-> rt.proxy_pass_path,
   SetHeadersList |-> rt.set_headers,
   StaticDir |-> rt.static_dir,
   ResponseBodyReplace |-> MapSeq(LoadBodyReplace, rt.response_body_replace),
   Upstreams |-> MapSeq(LoadUpstream, rt.upstreams)]

LoadRule(rule) ==
  LET addr == IF rule.listen_addr = <<>> THEN DefaultListenAddr ELSE rule.listen_addr
  IN  [ID |-> rule.id,
       Enabled |-> OptBool(rule.enabled),
       ListenAddr |-> addr,
       ListenAddrs |-> IF Len(rule.listen_addrs) > 0 THEN rule.listen_addrs ELSE <<addr>>,
       SSLEnable |-> rule.ssl_enable,
       CertFile |-> rule.cert_file,
       KeyFile |-> rule.key_file,
       BasicAuthEnable |-> rule.basic_auth_enable,
       BasicAuthUsername |-> rule.basic_auth_username,
       BasicAuthPassword |-> rule.basic_auth_password,
       Routes |-> IF Len(rule.routes) > 0 THEN MapSeq(LoadRoute, rule.routes)
                  ELSE <<PlaceholderRoute>>]

LoadRules(cfgRules) ==
  IF Len(cfgRules) > 0 THEN MapSeq(LoadRule, cfgRules) ELSE <<PlaceholderRule>>

CleanHeader(kv) == [Key |-> Trim(kv.Key), Value |-> Trim(kv.Value)]

\* setHeaders[k] = v: a later pair with the same key replaces the earlier.
RECURSIVE SetAll(_, _)
SetAll(obj, list) ==
  IF list = <<>> THEN obj
  ELSE LET kv == CleanHeader(Head(list))
           at == {i \in 1..Len(obj) : obj[i].Key = kv.Key}
       IN  IF kv.Key = <<>> THEN SetAll(obj, Tail(list))
           ELSE IF at = {} THEN SetAll(Append(obj, kv), Tail(list))
           ELSE SetAll([i \in 1..Len(obj) |-> IF i \in at THEN kv ELSE obj[i]], Tail(list))

CleanBodyReplace(r) ==
  [Find |-> Trim(r.Find), Replace |-> Trim(r.Replace), UseRegex |-> r.UseRegex,
   Enabled |-> OptBool(DefaultTrue(r.Enabled))]

CleanUpstream(u) == [URL |-> Trim(u.URL), Weight |-> IF u.Weight > 0 THEN u.Weight ELSE 1]

KeepAllUpstreams(us) == MapSeq(CleanUpstream, us)

CleanUpstreams(us) ==
  MapSeq(CleanUpstream, SelectSeq(us, LAMBDA u : Trim(u.URL) # <<>>))

CleanRoute(rt) ==
  [ID |-> Trim(rt.ID),
   Enabled |-> OptBool(DefaultTrue(rt.Enabled)),
   Host |-> Trim(rt.Host),
   Path |-> normalizePath(rt.Path),
   ProxyPassPath |-> IF rt.ProxyPassPath # <<>> THEN normalizePath(rt.ProxyPassPath) ELSE <<>>,
   SetHeaders |-> SetAll(<<>>, rt.SetHeadersList),
   StaticDir |-> Trim(rt.StaticDir),
   ResponseBodyReplace |->
     MapSeq(CleanBodyReplace, SelectSeq(rt.ResponseBodyReplace, LAMBDA r : Trim(r.Find) # <<>>)),
   Upstreams |-> CleanUpstreams(rt.Upstreams)]

CleanRule(rule) ==
  [ID |-> Trim(rule.ID),
   Enabled |-> OptBool(DefaultTrue(rule.Enabled)),
   ListenAddr |-> Trim(rule.ListenAddr),
   ListenAddrs |->
     SelectSeq(MapSeq(Trim, IF Len(rule.ListenAddrs) > 0 THEN rule.ListenAddrs
                            ELSE <<rule.ListenAddr>>),
               LAMBDA s : s # <<>>),
   SSLEnable |-> rule.SSLEnable,
   CertFile |-> rule.CertFile,
   KeyFile |-> rule.KeyFile,
   BasicAuthEnable |-> rule.BasicAuthEnable,
   BasicAuthUsername |-> Trim(rule.BasicAuthUsername),
   BasicAuthPassword |-> Trim(rule.BasicAuthPassword),
   Routes |-> MapSeq(CleanRoute, rule.Routes)]

RouteError(rt) ==
  IF rt.Path = <<>> THEN "routePathEmpty"
  ELSE IF ~(Len(rt.Upstreams) > 0) /\ ~(rt.StaticDir # <<>> /\ Trim(rt.StaticDir) # <<>>)
       THEN "routeNoUpstreamOrStatic"
       ELSE ""

\* The error the validation loop throws for one cleaned rule, "" for none.
RuleError(rule) ==
  LET bad == {j \in 1..Len(rule.Routes) : RouteError(rule.Routes[j]) # ""}
      first == CHOOSE j \in bad : \A k \in bad : j <= k
  IN  IF rule.ListenAddr = <<>> THEN "ruleListenAddrEmpty"
      ELSE IF Len(rule.Routes) = 0 THEN "ruleNoRoutes"
      ELSE IF bad # {} THEN RouteError(rule.Routes[first])
      ELSE IF rule.SSLEnable /\ (rule.CertFile = <<>> \/ rule.KeyFile = <<>>)
           THEN "ruleSSLCertEmpty"
      ELSE IF rule.BasicAuthEnable
                /\ (rule.BasicAuthUsername = <<>> \/ rule.BasicAuthPassword = <<>>)
           THEN "ruleBasicAuthEmpty"
      ELSE ""

MapBodyReplace(r) ==
  [find |-> Trim(r.Find), replace |-> Trim(r.Replace), use_regex |-> r.UseRegex,
   enabled |-> DefaultTrue(r.Enabled),
   content_types |-> <<>>]      \* no such key is emitted

MapUpstream(u) == [url |-> u.URL, weight |-> u.Weight]

MapRoute(rt) ==
  [id |-> rt.ID,
   enabled |-> DefaultTrue(rt.Enabled),
   host |-> rt.Host,
   path |-> rt.Path,
   methods |-> {},              \* no such key is emitted
   headers |-> <<>>,            \* no such key is emitted
   proxy_pass_path |-> rt.ProxyPassPath,
   set_headers |-> rt.SetHeaders,
   static_dir |-> rt.StaticDir,
   response_body_replace |->
     MapSeq(MapBodyReplace, SelectSeq(rt.ResponseBodyReplace, LAMBDA r : Trim(r.Find) # <<>>)),
   upstreams |-> MapSeq(MapUpstream, rt.Upstreams)]

MapRule(r) ==
  [id |-> r.ID,
   enabled |-> DefaultTrue(r.Enabled),
   listen_addr |-> IF Len(r.ListenAddrs) > 0 THEN r.ListenAddrs[1] ELSE r.ListenAddr,
   listen_addrs |-> r.ListenAddrs,
   ssl_enable |-> r.SSLEnable,
   cert_file |-> r.CertFile,
   key_file |-> r.KeyFile,
   basic_auth_enable |-> r.BasicAuthEnable,
   basic_auth_username |-> r.BasicAuthUsername,
   basic_auth_password |-> r.BasicAuthPassword,
   routes |-> MapSeq(MapRoute, r.Routes)]

\* getConfig(): the returned rules, or the error thrown.
getConfig(rs) ==
  LET cleanedRules == MapSeq(CleanRule, rs)
      bad == {i \in 1..Len(cleanedRules) : RuleError(cleanedRules[i]) # ""}
      first == CHOOSE i \in bad : \A k \in bad : i <= k
  IN  IF bad # {}
      THEN [ok |-> FALSE, error |-> RuleError(cleanedRules[first]), rules |-> <<>>]
      ELSE [ok |-> TRUE, error |-> "", rules |-> MapSeq(MapRule, cleanedRules)]

\* `new-route-${Date.now()}`
NewRoute == [PlaceholderRoute EXCEPT !.ID = <<"n", ToString(dateNow)>>]

\* `new-rule-${Date.now()}`
NewRule == [PlaceholderRule EXCEPT !.ID = <<"n", ToString(dateNow)>>, !.Routes = <<NewRoute>>]

RemoveAt(s, i) == SubSeq(s, 1, i - 1) \o SubSeq(s, i + 1, Len(s))

\* The next value an el-switch gives its model when clicked.
Flip(v) == IF v = "true" THEN "false" ELSE "true"

RuleIndexes == 1..Len(rules)
RouteIndexes(i) == 1..Len(rules[i].Routes)
UpstreamIndexes(i, j) == 1..Len(rules[i].Routes[j].Upstreams)

UrlInputs == {<<>>, <<" ">>, <<"u">>}
DirInputs == {<<>>, <<"d">>}
AddrInputs == {<<>>, <<<<"a">>>>, <<<<"a">>, <<"b">>>>}

\* The stream section of an editor that holds nothing.
NoStream == [enabled |-> FALSE, upstreams |-> <<>>, servers |-> <<>>]

NoSave == [input |-> <<>>, stream |-> NoStream, ok |-> FALSE, error |-> "none",
           called |-> FALSE]

CfgInitWith(configs, n) ==
  /\ loaded \in configs
  /\ rules = <<PlaceholderRule>>
  /\ mounted = FALSE
  /\ edited = FALSE
  /\ editsLeft = n
  /\ saving = FALSE
  /\ lastSave = NoSave
  /\ saveCalls = <<>>
  /\ dateNow = 0

onMounted ==
  /\ ~mounted
  /\ mounted' = TRUE
  /\ rules' = LoadRules(loaded)
  /\ edited' = FALSE
  /\ UNCHANGED <<loaded, editsLeft, saving, lastSave, saveCalls, dateNow>>

Edit(newRules) ==
  /\ editsLeft > 0
  /\ editsLeft' = editsLeft - 1
  /\ rules' = newRules
  /\ edited' = TRUE
  /\ UNCHANGED <<loaded, mounted, saving, lastSave, saveCalls, dateNow>>

addRule ==
  /\ Len(rules) < MaxRules
  /\ Edit(Append(rules, NewRule))

removeRule(index) ==
  /\ Len(rules) > 1
  /\ Edit(RemoveAt(rules, index))

addRoute(i) ==
  /\ Len(rules[i].Routes) < MaxRuleRoutes
  /\ Edit([rules EXCEPT ![i].Routes = Append(@, NewRoute)])

removeRoute(i, j) ==
  /\ Len(rules[i].Routes) > 1
  /\ Edit([rules EXCEPT ![i].Routes = RemoveAt(@, j)])

addUpstream(i, j) ==
  /\ Len(rules[i].Routes[j].Upstreams) < MaxUpstreams
  /\ Edit([rules EXCEPT ![i].Routes[j].Upstreams = Append(@, [URL |-> <<>>, Weight |-> 1])])

removeUpstream(i, j, k) ==
  LET rt == rules[i].Routes[j]
      hasStaticDir == rt.StaticDir # <<>> /\ Trim(rt.StaticDir) # <<>>
      minLen == IF hasStaticDir THEN 0 ELSE 1
  IN  /\ Len(rt.Upstreams) > minLen
      /\ Edit([rules EXCEPT ![i].Routes[j].Upstreams = RemoveAt(@, k)])

\* OpenDirectoryDialog returns a path, or nothing when it is cancelled.
selectDirectory(i, j, dirPath) ==
  /\ dirPath # <<>>
  /\ Edit([rules EXCEPT ![i].Routes[j] =
             [@ EXCEPT !.StaticDir = dirPath,
                       !.Upstreams = SelectSeq(@, LAMBDA u : Trim(u.URL) # <<>>)]])

\* v-model of the upstream's URL input.
InputUpstreamURL(i, j, k, url) ==
  /\ rules[i].Routes[j].Upstreams[k].URL # url
  /\ Edit([rules EXCEPT ![i].Routes[j].Upstreams[k].URL = url])

\* v-model of a route's path input.
InputPath(i, j, p) ==
  /\ rules[i].Routes[j].Path # p
  /\ Edit([rules EXCEPT ![i].Routes[j].Path = p])

\* v-model of a route's proxy_pass_path input.
InputProxyPassPath(i, j, p) ==
  /\ rules[i].Routes[j].ProxyPassPath # p
  /\ Edit([rules EXCEPT ![i].Routes[j].ProxyPassPath = p])

\* v-model of the el-select (multiple) holding the listen addresses.
InputListenAddrs(i, addrs) ==
  /\ rules[i].ListenAddrs # addrs
  /\ Edit([rules EXCEPT ![i].ListenAddrs = addrs])

\* The switch has flipped the model; SetListenRuleEnabled answers "ok" with
\* the value stored, or fails.
onToggleListenRuleEnabled(i, outcome) ==
  LET next == Flip(rules[i].Enabled)
  IN  Edit([rules EXCEPT ![i].Enabled =
              IF rules[i].ID = <<>> THEN "true"
              ELSE IF outcome = "ok" THEN next ELSE Flip(next)])

onToggleRouteEnabled(i, j, outcome) ==
  LET next == Flip(rules[i].Routes[j].Enabled)
  IN  Edit([rules EXCEPT ![i].Routes[j].Enabled =
              IF rules[i].ID = <<>> \/ rules[i].Routes[j].ID = <<>> THEN "true"
              ELSE IF outcome = "ok" THEN next ELSE Flip(next)])

\* A millisecond passes between two handlers.
DateTick ==
  /\ dateNow < MaxDateNow
  /\ dateNow' = dateNow + 1
  /\ UNCHANGED <<loaded, rules, mounted, edited, editsLeft, saving, lastSave, saveCalls>>

CfgEdit ==
  \/ addRule
  \/ \E i \in RuleIndexes : removeRule(i)
  \/ \E i \in RuleIndexes : addRoute(i)
  \/ \E i \in RuleIndexes : \E j \in RouteIndexes(i) : removeRoute(i, j)
  \/ \E i \in RuleIndexes : \E j \in RouteIndexes(i) : addUpstream(i, j)
  \/ \E i \in RuleIndexes : \E j \in RouteIndexes(i) :
       \E k \in UpstreamIndexes(i, j) : removeUpstream(i, j, k)
  \/ \E i \in RuleIndexes : \E j \in RouteIndexes(i) :
       \E d \in DirInputs : selectDirectory(i, j, d)
  \/ \E i \in RuleIndexes : \E j \in RouteIndexes(i) :
       \E k \in UpstreamIndexes(i, j) : \E u \in UrlInputs : InputUpstreamURL(i, j, k, u)
  \/ \E i \in RuleIndexes : \E a \in AddrInputs : InputListenAddrs(i, a)
  \/ \E i \in RuleIndexes : \E o \in {"ok", "error"} : onToggleListenRuleEnabled(i, o)
  \/ \E i \in RuleIndexes : \E j \in RouteIndexes(i) :
       \E o \in {"ok", "error"} : onToggleRouteEnabled(i, j, o)

(***************************************************************************)
(* Stream editor (StreamProxyConfig.vue).  Of an upstream member only the  *)
(* addr is kept, of an upstream only its name and members: hash_key,       *)
(* consistent, weight, max_fails and fail_timeout are copied through and   *)
(* never validated.                                                        *)
(***************************************************************************)
VARIABLES
  streamLoaded,    \* the stream section GetConfig returns to the editor
  streamEnabled,   \* enabled.value
  upstreams,       \* upstreams.value
  servers,         \* servers.value
  streamMounted,   \* onMounted has filled the editor
  streamEditsLeft  \* edits the user may still make

streamVars == <<streamLoaded, streamEnabled, upstreams, servers, streamMounted,
                streamEditsLeft>>

Digits == {"0", "1", "2", "3", "4", "5", "6", "7", "8", "9"}
DigitValue(c) == CHOOSE n \in 0..9 : ToString(n) = c
NaN == -1

\* Number(s) of a trimmed string: its value when it is all digits.
RECURSIVE ToNumber(_, _)
ToNumber(s, acc) ==
  IF s = <<>> THEN acc
  ELSE IF Head(s) \in Digits THEN ToNumber(Tail(s), acc * 10 + DigitValue(Head(s)))
  ELSE NaN

LastIndexOf(s, c) ==
  LET at == {i \in 1..Len(s) : s[i] = c}
  IN  IF at = {} THEN 0 ELSE CHOOSE i \in at : \A k \in at : k <= i

isValidHostPort(v) ==
  LET s == Trim(v)
      idx == LastIndexOf(s, ":")
      host == Trim(SubSeq(s, 1, idx - 1))
      port == ToNumber(Trim(SubSeq(s, idx + 1, Len(s))), 0)
  IN  /\ s # <<>>
      /\ ~(idx <= 1 \/ idx = Len(s))
      /\ host # <<>>
      /\ port >= 1 /\ port <= MaxPort

RECURSIVE DropWhile(_, _)
DropWhile(s, set) == IF s # <<>> /\ Head(s) \in set THEN DropWhile(Tail(s), set) ELSE s

\* /^\d+\s*[smh]?$/ on the trimmed value
okTimeout(v) ==
  LET t == Trim(v)
      afterDigits == DropWhile(t, Digits)
      rest == DropWhile(afterDigits, {" "})
  IN  /\ Len(afterDigits) < Len(t)
      /\ rest \in {<<>>, <<"s">>, <<"m">>, <<"h">>}

DefaultConnectTimeout == <<"3", "0", "0", "s">>
DefaultTimeout == <<"6", "0", "0", "s">>
DefaultListenPort == 50002

OrDefault(s, d) == IF Trim(s) = <<>> THEN d ELSE Trim(s)

defaultUpstreamServer == [addr |-> <<>>]
defaultUpstream == [name |-> <<>>, servers |-> <<defaultUpstreamServer>>]
defaultServer ==
  [enabled |-> TRUE, listen_port |-> DefaultListenPort, proxy_pass |-> <<>>,
   proxy_connect_timeout |-> DefaultConnectTimeout, proxy_timeout |-> DefaultTimeout,
   udp |-> FALSE]

StreamLoadUpstream(u) ==
  [name |-> u.name,
   servers |-> IF Len(u.servers) > 0 THEN u.servers ELSE <<defaultUpstreamServer>>]

StreamCleanUpstream(u) ==
  [name |-> Trim(u.name),
   servers |-> SelectSeq(MapSeq(LAMBDA s : [addr |-> Trim(s.addr)], u.servers),
                         LAMBDA s : s.addr # <<>>)]

StreamCleanServer(s) ==
  [enabled |-> s.enabled,
   listen_port |-> s.listen_port,
   proxy_pass |-> Trim(s.proxy_pass),
   proxy_connect_timeout |-> OrDefault(s.proxy_connect_timeout, DefaultConnectTimeout),
   proxy_timeout |-> OrDefault(s.proxy_timeout, DefaultTimeout),
   udp |-> s.udp]

UpstreamError(ups, i) ==
  LET u == ups[i]
  IN  IF u.name = <<>> THEN "nameEmpty"
      ELSE IF \E k \in 1..(i - 1) : ups[k].name = u.name THEN "nameDuplicate"
      ELSE IF Len(u.servers) = 0 THEN "noServerAddr"
      ELSE IF \E j \in 1..Len(u.servers) : ~isValidHostPort(u.servers[j].addr)
           THEN "addrFormat"
      ELSE ""

\* A key that tells servers apart by their target as well.
PortKeyWithTarget(sv) == <<sv.listen_port, IF sv.udp THEN "udp" ELSE "tcp", sv.proxy_pass>>

\* portKey: `${sv.listen_port}/${sv.udp ? 'udp' : 'tcp'}`
PortKey(sv) == <<sv.listen_port, IF sv.udp THEN "udp" ELSE "tcp">>

ChecksServer(sv) == sv.enabled

ResolvesAlways(names, sv) == TRUE

Resolves(names, sv) == sv.proxy_pass \in names

ServerError(ups, svs, i) ==
  LET sv == svs[i]
      names == {ups[k].name : k \in 1..Len(ups)}
  IN  IF ~ChecksServer(sv) THEN ""
      ELSE IF sv.listen_port = 0 \/ sv.listen_port < 1 \/ sv.listen_port > MaxPort
           THEN "listenPort"
      ELSE IF sv.proxy_pass = <<>> THEN "proxyPassEmpty"
      ELSE IF ~Resolves(names, sv) THEN "proxyPassUnknown"
      ELSE IF \E k \in 1..(i - 1) : svs[k].enabled /\ PortKey(svs[k]) = PortKey(sv)
           THEN "portConflict"
      ELSE IF ~sv.udp /\ ~okTimeout(sv.proxy_connect_timeout) THEN "connectTimeoutFormat"
      ELSE IF ~sv.udp /\ ~okTimeout(sv.proxy_timeout) THEN "timeoutFormat"
      ELSE ""

First(S) == CHOOSE i \in S : \A k \in S : i <= k

StreamError(on, ups, svs) ==
  LET badUps == {i \in 1..Len(ups) : UpstreamError(ups, i) # ""}
      badSvs == {i \in 1..Len(svs) : ServerError(ups, svs, i) # ""}
  IN  IF ~on THEN ""
      ELSE IF Len(ups) = 0 THEN "noUpstream"
      ELSE IF badUps # {} THEN UpstreamError(ups, First(badUps))
      ELSE IF Len(svs) = 0 THEN "noServer"
      ELSE IF badSvs # {} THEN ServerError(ups, svs, First(badSvs))
      ELSE ""

\* StreamProxyConfig.getConfig(): the returned stream section, or the error.
streamGetConfig(on, ups, svs) ==
  LET cleanedUpstreams == MapSeq(StreamCleanUpstream, ups)
      cleanedServers == MapSeq(StreamCleanServer, svs)
      err == StreamError(on, cleanedUpstreams, cleanedServers)
  IN  IF err # ""
      THEN [ok |-> FALSE, error |-> err, stream |-> NoStream]
      ELSE [ok |-> TRUE, error |-> "",
            stream |-> [enabled |-> on, upstreams |-> cleanedUpstreams,
                        servers |-> cleanedServers]]

StreamInitWith(configs, n) ==
  /\ streamLoaded \in configs
  /\ streamEnabled = FALSE
  /\ upstreams = <<>>
  /\ servers = <<>>
  /\ streamMounted = FALSE
  /\ streamEditsLeft = n

streamOnMounted ==
  /\ ~streamMounted
  /\ streamMounted' = TRUE
  /\ streamEnabled' = streamLoaded.enabled
  /\ upstreams' = MapSeq(StreamLoadUpstream, streamLoaded.upstreams)
  /\ servers' = streamLoaded.servers
  /\ UNCHANGED <<streamLoaded, streamEditsLeft>>

StreamEdit(on, ups, svs) ==
  /\ streamEditsLeft > 0
  /\ streamEditsLeft' = streamEditsLeft - 1
  /\ streamEnabled' = on
  /\ upstreams' = ups
  /\ servers' = svs
  /\ UNCHANGED <<streamLoaded, streamMounted>>

InputStreamEnabled == StreamEdit(~streamEnabled, upstreams, servers)

streamAddUpstream ==
  /\ Len(upstreams) < MaxStreamUpstreams
  /\ StreamEdit(streamEnabled, Append(upstreams, defaultUpstream), servers)

streamRemoveUpstream(idx) ==
  StreamEdit(streamEnabled, RemoveAt(upstreams, idx), servers)

addUpstreamServer(upIndex) ==
  /\ Len(upstreams[upIndex].servers) < MaxUpstreamServers
  /\ StreamEdit(streamEnabled,
                [upstreams EXCEPT ![upIndex].servers = Append(@, defaultUpstreamServer)],
                servers)

removeUpstreamServer(upIndex, svIndex) ==
  /\ ~(Len(upstreams[upIndex].servers) <= 1)
  /\ StreamEdit(streamEnabled,
                [upstreams EXCEPT ![upIndex].servers = RemoveAt(@, svIndex)], servers)

addServer ==
  /\ Len(servers) < MaxStreamServers
  /\ StreamEdit(streamEnabled, upstreams, Append(servers, defaultServer))

removeServer(idx) == StreamEdit(streamEnabled, upstreams, RemoveAt(servers, idx))

InputUpstreamName(i, name) ==
  /\ upstreams[i].name # name
  /\ StreamEdit(streamEnabled, [upstreams EXCEPT ![i].name = name], servers)

InputUpstreamAddr(i, j, addr) ==
  /\ upstreams[i].servers[j].addr # addr
  /\ StreamEdit(streamEnabled, [upstreams EXCEPT ![i].servers[j].addr = addr], servers)

\* v-model of one field of a listening server.
InputServer(i, field, value) ==
  /\ servers[i][field] # value
  /\ StreamEdit(streamEnabled, upstreams, [servers EXCEPT ![i][field] = value])

NameInputs == {<<>>, <<"u">>, <<"w">>}
StreamAddrInputs == {<<"h">>, <<"h", ":", "1">>}
TimeoutInputs == {DefaultConnectTimeout, <<"x">>}
PortInputs == {0, 1, DefaultListenPort}
ServerInputs ==
  ({"enabled", "udp"} \X BOOLEAN)
    \cup ({"listen_port"} \X PortInputs)
    \cup ({"proxy_pass"} \X NameInputs)
    \cup ({"proxy_connect_timeout", "proxy_timeout"} \X TimeoutInputs)

StreamNext ==
  \/ streamOnMounted
  \/ InputStreamEnabled
  \/ streamAddUpstream
  \/ \E i \in 1..Len(upstreams) : streamRemoveUpstream(i)
  \/ \E i \in 1..Len(upstreams) : addUpstreamServer(i)
  \/ \E i \in 1..Len(upstreams) : \E j \in 1..Len(upstreams[i].servers) :
       removeUpstreamServer(i, j)
  \/ addServer
  \/ \E i \in 1..Len(servers) : removeServer(i)
  \/ \E i \in 1..Len(upstreams) : \E n \in NameInputs : InputUpstreamName(i, n)
  \/ \E i \in 1..Len(upstreams) : \E j \in 1..Len(upstreams[i].servers) :
       \E a \in StreamAddrInputs : InputUpstreamAddr(i, j, a)
  \/ \E i \in 1..Len(servers) : \E in \in ServerInputs : InputServer(i, in[1], in[2])

(***************************************************************************)
(* Global settings: BaseConfig's switches and AccessControl's switches.    *)
(***************************************************************************)
VARIABLES
  configData,    \* the configuration GetConfig answers with
  globalConfig,  \* globalConfig.value of the application
  baseRefs,      \* BaseConfig's refs: autoStart, showRealtimeLogs, enableHttp2
  baseMounted,   \* BaseConfig's onMounted has run
  localConfig,   \* AccessControl's localConfig.value
  touched,       \* the switches the user has moved
  switchesLeft   \* moves of a switch left (bound)

setVars == <<configData, globalConfig, baseRefs, baseMounted, localConfig, touched,
             switchesLeft>>

ConfigDatas ==
  [auto_start : Tristate, show_realtime_logs : Tristate, enable_http2 : Tristate,
   ws_access_control_enabled : Tristate]

\* const globalConfig = ref<any>({})
EmptyConfig ==
  [auto_start |-> "undefined", show_realtime_logs |-> "undefined",
   enable_http2 |-> "undefined", ws_access_control_enabled |-> "undefined"]

\* !!v
Truthy(v) == v = "true"

DEFAULT_ENABLE_HTTP2 == TRUE

\* The refs of BaseConfig as declared, also what resetToDefaults restores.
BaseDefaults ==
  [autoStart |-> FALSE, showRealtimeLogs |-> TRUE, enableHttp2 |-> DEFAULT_ENABLE_HTTP2]

\* watch(() => props.config, ..., {immediate: true, deep: true})
WatchConfig(newConfig) ==
  [ws_access_control_enabled |-> DefaultTrue(newConfig.ws_access_control_enabled)]

SetInitWith(configs, n) ==
  /\ configData \in configs
  /\ globalConfig = EmptyConfig
  /\ baseRefs = BaseDefaults
  /\ baseMounted = FALSE
  /\ localConfig = WatchConfig(EmptyConfig)
  /\ touched = {}
  /\ switchesLeft = n

\* initializeApp: globalConfig.value = await GetConfig(), which the watch of
\* AccessControl follows.
LoadGlobalConfig ==
  /\ globalConfig = EmptyConfig
  /\ configData # EmptyConfig
  /\ globalConfig' = configData
  /\ localConfig' = WatchConfig(configData)
  /\ UNCHANGED <<configData, baseRefs, baseMounted, touched, switchesLeft>>

\* BaseConfig's onMounted.
baseOnMounted ==
  /\ ~baseMounted
  /\ baseMounted' = TRUE
  /\ baseRefs' = [autoStart |-> Truthy(configData.auto_start),
                  showRealtimeLogs |-> DefaultTrue(configData.show_realtime_logs),
                  enableHttp2 |-> DefaultTrue(configData.enable_http2)]
  /\ UNCHANGED <<configData, globalConfig, localConfig, touched, switchesLeft>>

BaseSwitches == {"autoStart", "showRealtimeLogs", "enableHttp2"}

\* The user moves one of BaseConfig's switches (v-model).
SwitchBase(f) ==
  /\ baseMounted
  /\ switchesLeft > 0
  /\ switchesLeft' = switchesLeft - 1
  /\ baseRefs' = [baseRefs EXCEPT ![f] = ~@]
  /\ touched' = touched \cup {f}
  /\ UNCHANGED <<configData, globalConfig, baseMounted, localConfig>>

\* The user moves the WebSocket access-control switch.
SwitchWsAccessControl ==
  /\ switchesLeft > 0
  /\ switchesLeft' = switchesLeft - 1
  /\ localConfig' = [localConfig EXCEPT !.ws_access_control_enabled = ~@]
  /\ touched' = touched \cup {"ws_access_control_enabled"}
  /\ UNCHANGED <<configData, globalConfig, baseRefs, baseMounted>>

resetToDefaults ==
  /\ baseMounted
  /\ switchesLeft > 0
  /\ switchesLeft' = switchesLeft - 1
  /\ baseRefs' = BaseDefaults
  /\ touched' = touched \cup BaseSwitches
  /\ UNCHANGED <<configData, globalConfig, baseMounted, localConfig>>

\* BaseConfig's getConfig.
baseGetConfig ==
  [auto_start |-> baseRefs.autoStart, show_realtime_logs |-> baseRefs.showRealtimeLogs,
   enable_http2 |-> baseRefs.enableHttp2]

\* AccessControl's getConfig.
accessGetConfig ==
  [ws_access_control_enabled |-> localConfig.ws_access_control_enabled]

SetNext ==
  \/ LoadGlobalConfig
  \/ baseOnMounted
  \/ \E f \in BaseSwitches : SwitchBase(f)
  \/ SwitchWsAccessControl
  \/ resetToDefaults

(***************************************************************************)
(* What a save leaves behind (main.ts): the autostart registration of the  *)
(* operating system and the refresh timer.                                 *)
(***************************************************************************)
VARIABLES
  autostartEnabled,  \* isAutostartEnabled(): the registration at the operating system
  refreshPending,    \* the 1000 ms timer of handleSaveConfig is pending
  saveCtx            \* for each SaveConfig call: status, starting and saving at the click

appVars == <<autostartEnabled, refreshPending, saveCtx>>

AppInitWith(registrations) ==
  /\ autostartEnabled \in registrations
  /\ refreshPending = FALSE
  /\ saveCtx = <<>>

(***************************************************************************)
(* WebSocket editor (WsProxyConfig.vue).                                   *)
(***************************************************************************)
VARIABLES
  wsProxyEnabled,  \* wsProxyEnabled.value
  wsRules,         \* rules.value of the WebSocket editor
  wsMounted,       \* its onMounted has run
  wsEditsLeft      \* edits left (bound)

wsVars == <<wsProxyEnabled, wsRules, wsMounted, wsEditsLeft>>

WsUrl == <<"w">>
WsListenAddr == <<"0">>

\* rules = ref([...]): the rule the editor is constructed with.
WsInitialRule ==
  [enabled |-> FALSE, listen_addr |-> WsListenAddr, ssl_enable |-> FALSE,
   cert_file |-> <<>>, key_file |-> <<>>,
   routes |-> <<[path |-> <<"/", "w">>, upstream_url |-> WsUrl]>>]

WsNewRule == [WsInitialRule EXCEPT !.enabled = TRUE]
WsNewRoute == [path |-> <<"/", "w">>, upstream_url |-> <<>>]

WsLoadRoute(rt) ==
  [path |-> IF rt.path = <<>> THEN <<"/">> ELSE rt.path, upstream_url |-> rt.upstream_url]

WsLoadRule(r) ==
  [enabled |-> r.enabled,
   listen_addr |-> IF r.listen_addr = <<>> THEN WsListenAddr ELSE r.listen_addr,
   ssl_enable |-> r.ssl_enable, cert_file |-> r.cert_file, key_file |-> r.key_file,
   routes |-> IF Len(r.routes) > 0 THEN MapSeq(WsLoadRoute, r.routes)
              ELSE <<[path |-> <<"/", "w">>, upstream_url |-> <<>>]>>]

WsInitWith(n) ==
  /\ wsProxyEnabled = TRUE
  /\ wsRules = <<WsInitialRule>>
  /\ wsMounted = FALSE
  /\ wsEditsLeft = n

\* onMounted: cfg is what GetConfig answers with.
wsOnMounted(cfg) ==
  /\ ~wsMounted
  /\ wsMounted' = TRUE
  /\ wsProxyEnabled' = DefaultTrue(cfg.ws_proxy_enabled)
  /\ wsRules' = IF Len(cfg.ws_proxy) > 0 THEN MapSeq(WsLoadRule, cfg.ws_proxy) ELSE wsRules
  /\ UNCHANGED wsEditsLeft

WsEdit(newRules) ==
  /\ wsEditsLeft > 0
  /\ wsEditsLeft' = wsEditsLeft - 1
  /\ wsRules' = newRules
  /\ UNCHANGED <<wsProxyEnabled, wsMounted>>

wsAddRule ==
  /\ Len(wsRules) < MaxWsRules
  /\ WsEdit(Append(wsRules, WsNewRule))

wsRemoveRule(i) ==
  /\ Len(wsRules) > 1
  /\ WsEdit(RemoveAt(wsRules, i))

wsAddRoute(i) ==
  /\ Len(wsRules[i].routes) < MaxWsRoutes
  /\ WsEdit([wsRules EXCEPT ![i].routes = Append(@, WsNewRoute)])

wsRemoveRoute(i, j) ==
  /\ Len(wsRules[i].routes) > 1
  /\ WsEdit([wsRules EXCEPT ![i].routes = RemoveAt(@, j)])

\* v-model of a route's path input.
InputWsPath(i, j, p) ==
  /\ wsRules[i].routes[j].path # p
  /\ WsEdit([wsRules EXCEPT ![i].routes[j].path = p])

\* v-model of a route's upstream input.
InputWsUpstreamUrl(i, j, u) ==
  /\ wsRules[i].routes[j].upstream_url # u
  /\ WsEdit([wsRules EXCEPT ![i].routes[j].upstream_url = u])

\* v-model of a rule's listen address input.
InputWsListenAddr(i, a) ==
  /\ wsRules[i].listen_addr # a
  /\ WsEdit([wsRules EXCEPT ![i].listen_addr = a])

WsCleanRoute(rt) == [path |-> normalizePath(rt.path), upstream_url |-> Trim(rt.upstream_url)]

WsCleanRule(r) ==
  [enabled |-> r.enabled, listen_addr |-> Trim(r.listen_addr), ssl_enable |-> r.ssl_enable,
   cert_file |-> r.cert_file, key_file |-> r.key_file,
   routes |-> MapSeq(WsCleanRoute, r.routes)]

WsRouteError(rt) ==
  IF rt.path = <<>> THEN "wsPathEmpty"
  ELSE IF rt.upstream_url = <<>> THEN "wsUpstreamEmpty"
  ELSE ""

WsRuleError(r) ==
  LET bad == {j \in 1..Len(r.routes) : WsRouteError(r.routes[j]) # ""}
      first == CHOOSE j \in bad : \A k \in bad : j <= k
  IN  IF r.listen_addr = <<>> THEN "wsListenAddrEmpty"
      ELSE IF r.ssl_enable /\ (r.cert_file = <<>> \/ r.key_file = <<>>) THEN "wsCertEmpty"
      ELSE IF Len(r.routes) = 0 THEN "wsNoRoutes"
      ELSE IF bad # {} THEN WsRouteError(r.routes[first])
      ELSE ""

\* getConfig: ok is FALSE when it throws, error is then what it throws.
wsGetConfig(on, rs) ==
  LET cleaned == MapSeq(WsCleanRule, rs)
      bad == {i \in 1..Len(cleaned) : WsRuleError(cleaned[i]) # ""}
      first == CHOOSE i \in bad : \A k \in bad : i <= k
  IN  IF bad # {}
        THEN [ok |-> FALSE, error |-> WsRuleError(cleaned[first]),
              config |-> [ws_proxy_enabled |-> on, ws_proxy |-> <<>>]]
        ELSE [ok |-> TRUE, error |-> "",
              config |-> [ws_proxy_enabled |-> on, ws_proxy |-> cleaned]]

WsRuleIndexes == 1..Len(wsRules)
WsRouteIndexes(i) == 1..Len(wsRules[i].routes)

\* What the user can type as a path.
PathInputs ==
  {<<>>, <<" ">>, <<"a">>, <<"/">>, <<"/", "a">>, <<" ", "a">>, <<" ", "/">>, <<"a", " ">>}

\* What GetConfig can answer with for the WebSocket editor.
WsConfigs ==
  {[ws_proxy_enabled |-> e, ws_proxy |-> ws] :
     e \in Tristate,
     ws \in {<<>>, <<[WsInitialRule EXCEPT !.routes = <<>>]>>,
             <<[WsInitialRule EXCEPT !.routes = <<[path |-> <<>>, upstream_url |-> WsUrl]>>]>>}}

WsNext ==
  \/ \E cfg \in WsConfigs : wsOnMounted(cfg)
  \/ wsAddRule
  \/ \E i \in WsRuleIndexes : wsRemoveRule(i)
  \/ \E i \in WsRuleIndexes : wsAddRoute(i)
  \/ \E i \in WsRuleIndexes : \E j \in WsRouteIndexes(i) : wsRemoveRoute(i, j)
  \/ \E i \in WsRuleIndexes : \E j \in WsRouteIndexes(i) : \E p \in PathInputs :
       InputWsPath(i, j, p)
  \/ \E i \in WsRuleIndexes : \E j \in WsRouteIndexes(i) : \E u \in {<<>>, <<" ">>, WsUrl} :
       InputWsUpstreamUrl(i, j, u)
  \/ \E i \in WsRuleIndexes : \E a \in {<<>>, WsListenAddr} : InputWsListenAddr(i, a)

(***************************************************************************)
(* Saving (main.ts, handleSaveConfig): the editors' getConfig() results    *)
(* are merged and passed to SaveConfig unless one of them throws.          *)
(***************************************************************************)
\* The settings of finalConfig, as globalConfig holds them.
FinalSettings ==
  [auto_start |-> OptBool(baseGetConfig.auto_start),
   show_realtime_logs |-> OptBool(baseGetConfig.show_realtime_logs),
   enable_http2 |-> OptBool(baseGetConfig.enable_http2),
   ws_access_control_enabled |-> OptBool(accessGetConfig.ws_access_control_enabled)]

\* save_config fills the ids a configuration lacks with generated values
\* and returns the configuration it stored.
GeneratedId(kind, n) == <<kind, ToString(n)>>

FillIds(rs) ==
  [i \in 1..Len(rs) |->
     [rs[i] EXCEPT
        !.id = IF rs[i].id = <<>> THEN GeneratedId("rule", i) ELSE rs[i].id,
        !.routes = [j \in 1..Len(rs[i].routes) |->
                      [rs[i].routes[j] EXCEPT
                         !.id = IF rs[i].routes[j].id = <<>>
                                  THEN GeneratedId("route", j)
                                  ELSE rs[i].routes[j].id]]]]

\* A handler whose catch of a getConfig error does not return.
SaveGoesOnAfterError(allOk) == TRUE

\* The inner catch returns unless every getConfig has answered.
SaveGoesOn(allOk) == allOk

\* handleSaveConfig up to its call of SaveConfig.
handleSaveConfig ==
  LET http == getConfig(rules)
      ws == wsGetConfig(wsProxyEnabled, wsRules)
      stream == streamGetConfig(streamEnabled, upstreams, servers)
      allOk == http.ok /\ ws.ok /\ stream.ok
      error == IF ~http.ok THEN http.error ELSE IF ~ws.ok THEN ws.error ELSE stream.error
      editor == [enabled |-> streamEnabled, upstreams |-> upstreams, servers |-> servers]
  IN  /\ Len(saveCalls) < MaxSaves
      /\ IF SaveGoesOn(allOk)
         THEN /\ saving' = TRUE
              /\ saveCalls' = Append(saveCalls, [rules |-> http.rules, stream |-> stream.stream,
                                                 ws |-> ws.config, settings |-> FinalSettings,
                                                 answer |-> "pending"])
              /\ saveCtx' = Append(saveCtx, [status |-> uiStatus, starting |-> starting,
                                             saving |-> saving])
         ELSE /\ saving' = FALSE
              /\ saveCalls' = saveCalls
              /\ saveCtx' = saveCtx
      /\ lastSave' = [input |-> rules, stream |-> editor, ok |-> allOk,
                      error |-> IF allOk THEN "" ELSE error, called |-> allOk]
      /\ UNCHANGED <<loaded, rules, mounted, edited, editsLeft, dateNow, streamVars, setVars,
                     autostartEnabled, refreshPending>>

\* A save button that is never disabled.
ClickSaveAlways == handleSaveConfig

\* The save button: disabled unless the service is shown as stopped and
\* neither a save nor a start is in progress.
ClickSave ==
  /\ ~(uiStatus # "stopped" \/ saving \/ starting)
  /\ handleSaveConfig

\* SaveConfig has answered: with the saved configuration, with nothing, or
\* with an error; then the autostart registration is brought in line, the
\* answer becomes globalConfig (which AccessControl watches), the refresh is
\* scheduled, and the finally block runs.
SaveConfigReturn(answer) ==
  LET final == saveCalls[Len(saveCalls)].settings
  IN  /\ saving
      /\ saving' = FALSE
      /\ IF answer = "error"
           THEN UNCHANGED <<setVars, autostartEnabled, refreshPending>>
           ELSE /\ configData' = final
                /\ autostartEnabled' = (final.auto_start = "true")
                /\ IF answer = "saved"
                     THEN globalConfig' = final /\ localConfig' = WatchConfig(final)
                     ELSE UNCHANGED <<globalConfig, localConfig>>
                /\ refreshPending' = TRUE
                /\ UNCHANGED <<baseRefs, baseMounted, touched, switchesLeft>>
      /\ saveCalls' = [saveCalls EXCEPT ![Len(saveCalls)].answer = answer]
      /\ UNCHANGED <<loaded, rules, mounted, edited, editsLeft, lastSave, dateNow,
                     streamVars, saveCtx>>

SaveAnswers == {"saved", "null", "error"}

\* The timer of handleSaveConfig: globalConfig.value = await GetConfig().
RefreshGlobalConfig ==
  /\ refreshPending
  /\ refreshPending' = FALSE
  /\ globalConfig' = configData
  /\ localConfig' = WatchConfig(configData)
  /\ UNCHANGED <<configData, baseRefs, baseMounted, touched, switchesLeft, autostartEnabled,
                 saveCtx>>

CfgNext ==
  \/ onMounted /\ UNCHANGED <<streamVars, setVars, appVars>>
  \/ CfgEdit /\ UNCHANGED <<streamVars, setVars, appVars>>
  \/ handleSaveConfig
  \/ \E answer \in SaveAnswers : SaveConfigReturn(answer)

StreamSaveNext ==
  \/ StreamNext /\ UNCHANGED <<cfgVars, setVars, appVars>>
  \/ handleSaveConfig
  \/ \E answer \in SaveAnswers : SaveConfigReturn(answer)

\* A validated rule: one enabled route with one upstream.
ValidRoute ==
  [id |-> <<"t">>, enabled |-> TRUE, host |-> <<>>, path |-> <<"/">>, methods |-> {},
   headers |-> <<>>, proxy_pass_path |-> <<>>, set_headers |-> <<>>,
   static_dir |-> <<>>, response_body_replace |-> <<>>,
   upstreams |-> <<[url |-> <<"u">>, weight |-> 1]>>]

ValidRule ==
  [id |-> <<"r">>, enabled |-> TRUE, listen_addr |-> <<"a">>, listen_addrs |-> <<<<"a">>>>,
   ssl_enable |-> FALSE, cert_file |-> <<>>, key_file |-> <<>>,
   basic_auth_enable |-> FALSE, basic_auth_username |-> <<>>,
   basic_auth_password |-> <<>>, routes |-> <<ValidRoute>>]

ValidStream ==
  [enabled |-> TRUE,
   upstreams |-> <<[name |-> <<"u">>, servers |-> <<[addr |-> <<"h", ":", "1">>]>>]>>,
   servers |-> <<[defaultServer EXCEPT !.proxy_pass = <<"u">>]>>]

\* Loading, adding and removing rules and routes, and filling in upstreams.
IdsNext ==
  \/ onMounted
  \/ DateTick
  \/ addRule
  \/ \E i \in RuleIndexes : removeRule(i)
  \/ \E i \in RuleIndexes : addRoute(i)
  \/ \E i \in RuleIndexes : \E j \in RouteIndexes(i) : removeRoute(i, j)
  \/ \E i \in RuleIndexes : \E j \in RouteIndexes(i) :
       \E k \in UpstreamIndexes(i, j) : InputUpstreamURL(i, j, k, <<"u">>)

RoundTripNext ==
  \/ onMounted /\ UNCHANGED <<streamVars, setVars, appVars>>
  \/ handleSaveConfig
  \/ \E answer \in SaveAnswers : SaveConfigReturn(answer)

\* Validated one-rule, one-route configurations: ids present, the path begins
\* with "/", the route has an upstream or a static_dir, and an enabled rule
\* has an enabled route.
ValidatedRoutes ==
  {rt \in [id : {<<"t">>}, enabled : BOOLEAN, host : {<<>>, <<"h">>},
           path : {<<"/">>, <<"/", "a">>}, methods : {{}, {"GET"}},
           headers : {<<>>, <<[Key |-> <<"k">>, Value |-> <<"*">>]>>},
           proxy_pass_path : {<<>>, <<"/", "p">>},
           set_headers : {<<>>, <<[Key |-> <<"k">>, Value |-> <<"v">>]>>},
           static_dir : {<<>>, <<"d">>},
           response_body_replace :
             {<<>>} \cup {<<[find |-> <<"f">>, replace |-> <<"g">>, use_regex |-> FALSE,
                             enabled |-> TRUE, content_types |-> ct]>> :
                          ct \in {<<>>, <<<<"c">>>>}},
           upstreams : {<<>>, <<[url |-> <<"u">>, weight |-> 2]>>}] :
     rt.upstreams # <<>> \/ rt.static_dir # <<>>}

ValidatedConfigs ==
  {<<[ValidRule EXCEPT !.enabled = p[1], !.routes = <<p[2]>>]>> :
     p \in {q \in BOOLEAN \X ValidatedRoutes : q[1] => q[2].enabled}}

EditConfigs == {<<>>, <<ValidRule>>}

(***************************************************************************)
(* Application launch (main.ts: onMounted, initializeAppCore).             *)
(***************************************************************************)
VARIABLES
  launchPc,     \* position of initializeAppCore: mount | core | done
  autoTimer,    \* the 500 ms timer that calls start() is pending
  startCauses   \* for each StartServer call, what called start(): click | auto

launchVars == <<launchPc, autoTimer, startCauses>>

LaunchInit ==
  /\ launchPc = "mount"
  /\ autoTimer = FALSE
  /\ startCauses = <<>>

LaunchIdle ==
  /\ launchPc = "done"
  /\ autoTimer = FALSE
  /\ startCauses = <<>>

\* initializeAppCore: status.value = await GetStatus().
InitializeAppCore ==
  /\ launchPc = "mount"
  /\ launchPc' = "core"
  /\ uiStatus' = GetStatus
  /\ UNCHANGED <<enabledL, lstate, supRunning, events, failCount, starting, startPc,
                 notified, started, userStop, startsLeft, autoTimer, startCauses>>

\* initializeAppCore: if (status.value === 'stopped') setTimeout(start, 500).
ScheduleAutoStart ==
  /\ launchPc = "core"
  /\ launchPc' = "done"
  /\ autoTimer' = (uiStatus = "stopped")
  /\ UNCHANGED <<supVars, startCauses>>

\* The timer fires: start().
AutoStartTimer ==
  /\ autoTimer
  /\ autoTimer' = FALSE
  /\ IF starting
       THEN UNCHANGED <<supVars, startCauses>>
       ELSE UIStart /\ startCauses' = Append(startCauses, "auto")
  /\ UNCHANGED launchPc

\* The user clicks the start button.
ClickStart ==
  /\ uiStatus # "running"
  /\ UIStart
  /\ startCauses' = Append(startCauses, "click")
  /\ UNCHANGED <<launchPc, autoTimer>>

LaunchNext ==
  \/ InitializeAppCore
  \/ ScheduleAutoStart
  \/ AutoStartTimer
  \/ ClickStart
  \/ BackendStartServer /\ UNCHANGED launchVars
  \/ BackendStartRejected /\ UNCHANGED launchVars
  \/ UIStartResume /\ UNCHANGED launchVars
  \/ UIStartFailed /\ UNCHANGED launchVars
  \/ UIStartPoll /\ UNCHANGED launchVars
  \/ UIStartTimeout /\ UNCHANGED launchVars
  \/ UIStop /\ UNCHANGED launchVars
  \/ UIOnStatusEvent /\ UNCHANGED launchVars
  \/ UIOnStartErrorEvent /\ UNCHANGED launchVars
  \/ \E l \in Listeners : ListenerBindOk(l) /\ UNCHANGED launchVars
  \/ \E l \in Listeners : ListenerBindFail(l) /\ UNCHANGED launchVars

(***************************************************************************)
(* The terms of use (main.ts: onMounted, handleTermsAccepted; api.ts:      *)
(* GetTermsAccepted, SetTermsAccepted, ResetTermsAccepted; TermsDialog).   *)
(* relaunch() ends the process; the process that follows starts from an    *)
(* initial state with the stored flag as it was left.                      *)
(***************************************************************************)
VARIABLES
  termsStored,      \* localStorage holds 'true' under TERMS_ACCEPTED_KEY
  termsPc,          \* position of the app: start | dialog | init | gone
  termsAtMount,     \* what GetTermsAccepted answered in onMounted
  showTermsDialog,  \* the terms dialog is shown
  agreed,           \* the checkbox of the dialog
  handlers,         \* the events main.ts has subscribed to with EventsOn
  mainConfigLoaded  \* initializeApp has loaded the configuration

termsVars == <<termsStored, termsPc, termsAtMount, showTermsDialog, agreed, handlers,
               mainConfigLoaded>>

TermsInitWith(stored) ==
  /\ termsStored \in stored
  /\ termsPc = "start"
  /\ termsAtMount = FALSE
  /\ showTermsDialog = FALSE
  /\ agreed = FALSE
  /\ handlers = {}
  /\ mainConfigLoaded = FALSE

TermsIdle ==
  /\ termsStored = TRUE
  /\ termsPc = "init"
  /\ termsAtMount = TRUE
  /\ showTermsDialog = FALSE
  /\ agreed = FALSE
  /\ handlers = {}
  /\ mainConfigLoaded = FALSE

GetTermsAccepted == termsStored

\* An onMounted that does not look at the stored flag.
TermsCheckSkipped(accepted) == TRUE

\* onMounted: if (!termsAccepted) { showTermsDialog = true; return }.
TermsCheck(accepted) == accepted

\* onMounted of main.ts up to initializeApp: the quit handler, then the
\* check of the stored flag.
mainOnMounted ==
  /\ termsPc = "start"
  /\ handlers' = handlers \cup {"request-quit"}
  /\ termsAtMount' = GetTermsAccepted
  /\ IF TermsCheck(GetTermsAccepted)
       THEN termsPc' = "init" /\ showTermsDialog' = showTermsDialog
       ELSE termsPc' = "dialog" /\ showTermsDialog' = TRUE
  /\ UNCHANGED <<termsStored, agreed, mainConfigLoaded, supVars, launchVars>>

\* initializeAppCore, first step, reached from initializeApp or from
\* initializeAppWithoutReloadConfig.
TermsInitializeAppCore ==
  /\ termsPc = "init"
  /\ InitializeAppCore
  /\ UNCHANGED termsVars

\* The rest of initializeAppCore (the subscriptions, the timer) and, in
\* initializeApp, the load of the configuration.
TermsFinishInit ==
  /\ termsPc = "init"
  /\ ScheduleAutoStart
  /\ handlers' = handlers \cup {"status", "server-start-error", "update-check-result"}
  /\ mainConfigLoaded' = termsAtMount
  /\ UNCHANGED <<termsStored, termsPc, termsAtMount, showTermsDialog, agreed>>

\* The checkbox of the dialog.
ToggleAgreed ==
  /\ termsPc # "gone"
  /\ showTermsDialog
  /\ agreed' = ~agreed
  /\ UNCHANGED <<termsStored, termsPc, termsAtMount, showTermsDialog, handlers,
                 mainConfigLoaded, supVars, launchVars>>

AcceptOutcomes == {"storeThrows", "relaunched", "relaunchThrows", "relaunchReturns"}

\* handleAccept of the dialog with requireAccept: SetTermsAccepted(true),
\* then, if relaunch() comes back, emit('close'), which main.ts answers
\* with handleTermsAccepted.
handleAccept(outcome) ==
  /\ termsPc = "dialog"
  /\ showTermsDialog
  /\ agreed
  /\ termsStored' = (IF outcome = "storeThrows" THEN termsStored ELSE TRUE)
  /\ termsPc' = CASE outcome = "relaunched" -> "gone"
                  [] outcome = "relaunchReturns" -> "init"
                  [] OTHER -> termsPc
  /\ showTermsDialog' = (IF outcome = "relaunchReturns" THEN FALSE ELSE showTermsDialog)
  /\ UNCHANGED <<termsAtMount, agreed, handlers, mainConfigLoaded, supVars, launchVars>>

\* handleReject of the dialog, confirmed: QuitApp().
handleReject ==
  /\ termsPc = "dialog"
  /\ showTermsDialog
  /\ termsPc' = "gone"
  /\ UNCHANGED <<termsStored, termsAtMount, showTermsDialog, agreed, handlers,
                 mainConfigLoaded, supVars, launchVars>>

\* About.vue: ResetTermsAccepted(), whose relaunch() ends the process or
\* throws.
handleResetTerms(relaunched) ==
  /\ termsPc = "init"
  /\ launchPc = "done"
  /\ ~showTermsDialog
  /\ termsStored
  /\ termsStored' = FALSE
  /\ termsPc' = (IF relaunched THEN "gone" ELSE termsPc)
  /\ UNCHANGED <<termsAtMount, showTermsDialog, agreed, handlers, mainConfigLoaded,
                 supVars, launchVars>>

\* The start button, which the dialog covers while it is shown.
TermsClickStart ==
  /\ termsPc \in {"dialog", "init"}
  /\ ~showTermsDialog
  /\ ClickStart
  /\ UNCHANGED termsVars

\* What goes on without a step of the terms: the timer, start() under way,
\* the backend, and the events main.ts has subscribed to.
TermsRunning(A) == termsPc # "gone" /\ A /\ UNCHANGED <<launchVars, termsVars>>

TermsNext ==
  \/ mainOnMounted
  \/ TermsInitializeAppCore
  \/ TermsFinishInit
  \/ ToggleAgreed
  \/ \E outcome \in AcceptOutcomes : handleAccept(outcome)
  \/ handleReject
  \/ \E relaunched \in BOOLEAN : handleResetTerms(relaunched)
  \/ TermsClickStart
  \/ termsPc # "gone" /\ AutoStartTimer /\ UNCHANGED termsVars
  \/ TermsRunning(BackendStartServer)
  \/ TermsRunning(BackendStartRejected)
  \/ TermsRunning(UIStartResume)
  \/ TermsRunning(UIStartFailed)
  \/ TermsRunning(UIStartPoll)
  \/ TermsRunning(UIStartTimeout)
  \/ ~showTermsDialog /\ TermsRunning(UIStop)
  \/ "status" \in handlers /\ TermsRunning(UIOnStatusEvent)
  \/ "server-start-error" \in handlers /\ TermsRunning(UIOnStartErrorEvent)
  \/ \E l \in Listeners : TermsRunning(ListenerBindOk(l))
  \/ \E l \in Listeners : TermsRunning(ListenerBindFail(l))

(***************************************************************************)
(* start() of main.ts, one record for each invocation that got past its    *)
(* guard, so that invocations can overlap if the guard lets them.          *)
(***************************************************************************)
VARIABLES
  runs          \* the invocations of start(): position, caller, what they reported

runVars == <<runs>>

RunInit == runs = <<>>

RunIdle == runs = <<>>

RunIndexes == 1..Len(runs)

InFlight == {i \in RunIndexes : runs[i].pc = "awaitStart"}

\* A start() without its guard.
StartGuardNone(flag) == TRUE

\* start(): if (starting.value) return.
StartGuard(flag) == ~flag

\* start() up to its call of StartServer.
start(cause) ==
  /\ StartGuard(starting)
  /\ Len(runs) < MaxStartRuns
  /\ starting' = TRUE
  /\ runs' = Append(runs, [pc |-> "awaitStart", cause |-> cause, report |-> "none",
                           recorded |-> FALSE, sawRunning |-> FALSE])
  /\ UNCHANGED <<enabledL, lstate, supRunning, events, failCount, uiStatus, startPc,
                 notified, started, userStop, startsLeft>>

\* The start button, which calls start() unless the status shown is running.
RunClickStart ==
  /\ uiStatus # "running"
  /\ start("click")
  /\ UNCHANGED launchVars

\* The 500 ms timer of initializeAppCore fires: start().
RunAutoStart ==
  /\ autoTimer
  /\ autoTimer' = FALSE
  /\ IF StartGuard(starting) THEN start("auto") ELSE UNCHANGED <<supVars, runVars>>
  /\ UNCHANGED <<launchPc, startCauses>>

\* start_server answers Ok to invocation i: the supervisor starts, the
\* status event is emitted.
StartServerResolved(i) ==
  /\ runs[i].pc = "awaitStart"
  /\ Len(events) < MaxEvents
  /\ SupervisorStart
  /\ events' = Append(events, StatusEvent("running"))
  /\ runs' = [runs EXCEPT ![i].pc = "returned"]
  /\ UNCHANGED <<enabledL, failCount, uiStatus, starting, startPc, notified, startsLeft,
                 launchVars>>

\* start_server fails for invocation i.
StartServerRejected(i) ==
  /\ runs[i].pc = "awaitStart"
  /\ runs' = [runs EXCEPT ![i].pc = "rejected"]
  /\ UNCHANGED <<supVars, launchVars>>

\* A start() that takes the answer of StartServer for the running state.
AfterStartServerTrusts(run) ==
  [status |-> "running",
   run |-> [run EXCEPT !.pc = "done", !.report = "success", !.recorded = TRUE]]

\* start() after the await: status 'stopped', the 'request sent' message,
\* then the polling loop.
AfterStartServer(run) ==
  [status |-> "stopped", run |-> [run EXCEPT !.pc = "poll"]]

startResume(i) ==
  /\ runs[i].pc = "returned"
  /\ uiStatus' = AfterStartServer(runs[i]).status
  /\ runs' = [runs EXCEPT ![i] = AfterStartServer(runs[i]).run]
  /\ starting' = (IF runs'[i].pc = "done" THEN FALSE ELSE starting)
  /\ UNCHANGED <<enabledL, lstate, supRunning, events, failCount, startPc, notified,
                 started, userStop, startsLeft, launchVars>>

\* A finally block that leaves the flag as it is.
FinallyKeeps(flag) == flag

\* start(): finally { starting.value = false }.
Finally(flag) == FALSE

\* One round of the polling loop: GetStatus; on 'running' the start time,
\* the 'service started' message, return.
startPoll(i) ==
  /\ runs[i].pc = "poll"
  /\ uiStatus' = GetStatus
  /\ IF GetStatus = "running"
       THEN /\ runs' = [runs EXCEPT ![i].pc = "done", ![i].report = "success",
                                    ![i].recorded = TRUE, ![i].sawRunning = TRUE]
            /\ starting' = Finally(starting)
       ELSE UNCHANGED <<runs, starting>>
  /\ UNCHANGED <<enabledL, lstate, supRunning, events, failCount, startPc, notified,
                 started, userStop, startsLeft, launchVars>>

\* The 5 s deadline passes: the loop ends, nothing is reported.
startDeadline(i) ==
  /\ runs[i].pc = "poll"
  /\ runs' = [runs EXCEPT ![i].pc = "done"]
  /\ starting' = Finally(starting)
  /\ UNCHANGED <<enabledL, lstate, supRunning, events, failCount, uiStatus, startPc,
                 notified, started, userStop, startsLeft, launchVars>>

\* The catch of start(): the 'start failed' message.
startCatch(i) ==
  /\ runs[i].pc = "rejected"
  /\ runs' = [runs EXCEPT ![i].pc = "done", ![i].report = "failure"]
  /\ starting' = Finally(starting)
  /\ UNCHANGED <<enabledL, lstate, supRunning, events, failCount, uiStatus, startPc,
                 notified, started, userStop, startsLeft, launchVars>>

RunAlone(A) == A /\ UNCHANGED <<launchVars, runVars>>

RunNext ==
  \/ RunClickStart
  \/ RunAutoStart
  \/ \E i \in RunIndexes : StartServerResolved(i)
  \/ \E i \in RunIndexes : StartServerRejected(i)
  \/ \E i \in RunIndexes : startResume(i)
  \/ \E i \in RunIndexes : startPoll(i)
  \/ \E i \in RunIndexes : startDeadline(i)
  \/ \E i \in RunIndexes : startCatch(i)
  \/ RunAlone(UIStop)
  \/ RunAlone(UIOnStatusEvent)
  \/ RunAlone(UIOnStartErrorEvent)
  \/ \E l \in Listeners : RunAlone(ListenerBindOk(l))
  \/ \E l \in Listeners : RunAlone(ListenerBindFail(l))

(***************************************************************************)
(* The time ranges of RequestLogs.vue (handleSearch) and Dashboard.vue     *)
(* (loadHistoricalData).  The pickers deliver milliseconds (value-format   *)
(* "x"); the shortcuts and the default range carry a fraction of a second. *)
(***************************************************************************)
VARIABLES
  logsDateRange,  \* dateRange of RequestLogs.vue: <<>> (null) or <<start, end>>
  dashDateRange,  \* dateRange of Dashboard.vue
  lastQuery,      \* what the last handleSearch / loadHistoricalData did
  picksLeft       \* choices of a range left (bound)

rangeVars == <<logsDateRange, dashDateRange, lastQuery, picksLeft>>

NoQuery == [api |-> "none", sent |-> FALSE, warned |-> FALSE, start_time |-> 0, end_time |-> 0]

\* Milliseconds a picker can hold: whole seconds (a time typed or picked),
\* and seconds with a fraction (new Date(), setHours(23, 59, 59, 999)).
PickerTimes == {sec * MsPerSec + ms : sec \in 0..MaxRangeSec, ms \in {0, 1, MsPerSec - 1}}

DateRanges == {<<>>} \cup {<<a, b>> : a \in PickerTimes, b \in PickerTimes}

RangeInitWith(n) ==
  /\ logsDateRange = <<>>
  /\ dashDateRange = <<>>
  /\ lastQuery = NoQuery
  /\ picksLeft = n

RangeIdle == RangeInitWith(0)

\* Math.floor(ms / 1000)
ToSeconds(ms) == ms \div MsPerSec

\* The body shared by handleSearch and loadHistoricalData: the two guards,
\* then the request with the range in whole seconds.
QueryFor(api, range) ==
  IF Len(range) # 2 \/ range[1] >= range[2]
    THEN [NoQuery EXCEPT !.api = api, !.warned = TRUE]
    ELSE [api |-> api, sent |-> TRUE, warned |-> FALSE,
          start_time |-> ToSeconds(range[1]), end_time |-> ToSeconds(range[2])]

PickLogsRange(range) ==
  /\ picksLeft > 0
  /\ picksLeft' = picksLeft - 1
  /\ logsDateRange' = range
  /\ UNCHANGED <<dashDateRange, lastQuery>>

PickDashRange(range) ==
  /\ picksLeft > 0
  /\ picksLeft' = picksLeft - 1
  /\ dashDateRange' = range
  /\ UNCHANGED <<logsDateRange, lastQuery>>

handleSearch ==
  /\ lastQuery' = QueryFor("QueryRequestLogs", logsDateRange)
  /\ UNCHANGED <<logsDateRange, dashDateRange, picksLeft>>

loadHistoricalData ==
  /\ lastQuery' = QueryFor("QueryHistoricalMetrics", dashDateRange)
  /\ UNCHANGED <<logsDateRange, dashDateRange, picksLeft>>

RangeNext ==
  \/ \E range \in DateRanges : PickLogsRange(range)
  \/ \E range \in DateRanges : PickDashRange(range)
  \/ handleSearch
  \/ loadHistoricalData

(***************************************************************************)
(* The statistics of Dashboard.vue: historicalData against the realtime    *)
(* window series (getRawWindowSeries), with the dashboard active.          *)
(***************************************************************************)
VARIABLES
  historicalData,  \* historicalData.value: a series, or the null series
  rawSeries        \* what getRawWindowSeries returns for the latest payload

histVars == <<historicalData, rawSeries>>

NullSeries ==
  [null |-> TRUE, counts |-> <<>>, s2xx |-> <<>>, s5xx |-> <<>>, s0 |-> <<>>,
   avgLatencyMs |-> <<>>, topRouteErr |-> <<>>, topUpErr |-> <<>>]

\* Series of at most one point: a range or a window without traffic, with
\* successes only, or with errors.
SeriesSet ==
  {[null |-> FALSE, counts |-> <<>>, s2xx |-> <<>>, s5xx |-> <<>>, s0 |-> <<>>,
    avgLatencyMs |-> <<>>, topRouteErr |-> <<>>, topUpErr |-> <<>>]}
  \cup [null : {FALSE}, counts : {<<MaxCount>>}, s2xx : {<<0>>, <<1>>, <<MaxCount>>},
        s5xx : {<<0>>, <<1>>}, s0 : {<<0>>}, avgLatencyMs : {<<1>>, <<MaxCount>>},
        topRouteErr : {<<>>, <<"route">>}, topUpErr : {<<>>, <<"upstream">>}]

HistInit ==
  /\ historicalData = NullSeries
  /\ rawSeries = NullSeries

HistIdle == HistInit

RECURSIVE sum(_)
sum(arr) == IF arr = <<>> THEN 0 ELSE Head(arr) + sum(Tail(arr))

\* Math.round(a / b) for a >= 0 and b > 0
RoundDiv(a, b) == (2 * a + b) \div (2 * b)

\* (a / b * 100).toFixed(2), in hundredths of a percent
Percent(a, b) == RoundDiv(a * 10000, b)

totalReq ==
  IF ~historicalData.null THEN sum(historicalData.counts)
  ELSE IF rawSeries.null THEN 0 ELSE sum(rawSeries.counts)

RateOf(series, hits) ==
  IF series.null \/ sum(series.counts) <= 0 THEN 0 ELSE Percent(hits, sum(series.counts))

successRate ==
  IF ~historicalData.null THEN RateOf(historicalData, sum(historicalData.s2xx))
  ELSE RateOf(rawSeries, sum(rawSeries.s2xx))

errorRate ==
  IF ~historicalData.null
    THEN RateOf(historicalData, sum(historicalData.s5xx) + sum(historicalData.s0))
    ELSE RateOf(rawSeries, sum(rawSeries.s5xx) + sum(rawSeries.s0))

\* In ten-thousandths of a millisecond: Math.round for the historical
\* series, toFixed(4) for the realtime one.
avgLatency ==
  IF ~historicalData.null /\ Len(historicalData.avgLatencyMs) > 0
    THEN 10000 * RoundDiv(sum(historicalData.avgLatencyMs), Len(historicalData.avgLatencyMs))
    ELSE IF rawSeries.null \/ Len(rawSeries.avgLatencyMs) = 0 THEN 0
    ELSE RoundDiv(10000 * sum(rawSeries.avgLatencyMs), Len(rawSeries.avgLatencyMs))

topRouteErr ==
  IF ~historicalData.null /\ Len(historicalData.topRouteErr) > 0
    THEN historicalData.topRouteErr
    ELSE rawSeries.topRouteErr

topUpErr ==
  IF ~historicalData.null /\ Len(historicalData.topUpErr) > 0
    THEN historicalData.topUpErr
    ELSE rawSeries.topUpErr

\* alignedView, from which every chart is drawn: the counts it shows.
alignedView ==
  IF ~historicalData.null
    THEN (IF historicalData.counts = <<>> THEN NullSeries ELSE historicalData)
    ELSE rawSeries

\* QueryHistoricalMetrics has answered: with a series, or without one.
HistoricalLoaded(series) ==
  /\ historicalData' = series
  /\ UNCHANGED rawSeries

clearHistoricalData ==
  /\ ~historicalData.null
  /\ historicalData' = NullSeries
  /\ UNCHANGED rawSeries

\* processMetricsPayload: a realtime payload becomes latest.
processMetricsPayload(series) ==
  /\ rawSeries' = series
  /\ UNCHANGED historicalData

HistNext ==
  \/ \E series \in SeriesSet \cup {NullSeries} : HistoricalLoaded(series)
  \/ clearHistoricalData
  \/ \E series \in SeriesSet : processMetricsPayload(series)

(***************************************************************************)
(* The enable switches of ConfigCard.vue with their calls in flight: one   *)
(* saved rule and one saved route of it.  The backend handles the calls in *)
(* the order they were sent, and the answers come back in that order.      *)
(***************************************************************************)
VARIABLES
  swShown,      \* switch -> Enabled as the editor shows it
  swPersisted,  \* switch -> enabled as the backend has persisted it
  swCalls,      \* SetListenRuleEnabled / SetRouteEnabled calls in flight
  swAnswered,   \* calls whose handler has finished
  swLeft        \* moves of a switch left (bound)

swVars == <<swShown, swPersisted, swCalls, swAnswered, swLeft>>

Switches == {"rule", "route"}

SwInitWith(n) ==
  /\ swPersisted \in [Switches -> BOOLEAN]
  /\ swShown = swPersisted
  /\ swCalls = <<>>
  /\ swAnswered = 0
  /\ swLeft = n

SwIdle ==
  /\ swPersisted = [t \in Switches |-> TRUE]
  /\ swShown = swPersisted
  /\ swCalls = <<>>
  /\ swAnswered = 0
  /\ swLeft = 0

\* The user moves a switch: v-model flips Enabled, then @change runs the
\* handler up to its await.
onToggleCall(t) ==
  /\ swLeft > 0
  /\ swLeft' = swLeft - 1
  /\ swShown' = [swShown EXCEPT ![t] = ~@]
  /\ swCalls' = Append(swCalls, [switch |-> t, next |-> ~swShown[t], state |-> "sent",
                                 enabled |-> FALSE])
  /\ UNCHANGED <<swPersisted, swAnswered>>

\* The oldest call not yet handled.
OldestSent ==
  CHOOSE i \in 1..Len(swCalls) :
    swCalls[i].state = "sent" /\ \A k \in 1..(i - 1) : swCalls[k].state # "sent"

\* set_listen_rule_enabled / set_route_enabled: persists and answers with
\* the configuration, or fails.
BackendSetEnabled(outcome) ==
  /\ \E i \in 1..Len(swCalls) : swCalls[i].state = "sent"
  /\ LET i == OldestSent
         c == swCalls[i]
     IN  IF outcome = "ok"
           THEN /\ swPersisted' = [swPersisted EXCEPT ![c.switch] = c.next]
                /\ swCalls' = [swCalls EXCEPT ![i].state = "ok", ![i].enabled = c.next]
           ELSE /\ swPersisted' = swPersisted
                /\ swCalls' = [swCalls EXCEPT ![i].state = "failed"]
  /\ UNCHANGED <<swShown, swAnswered, swLeft>>

\* What the handler writes to Enabled after the await.
AfterAwait(c, shown) == IF c.state = "ok" THEN c.enabled ELSE ~shown

\* The handler resumes: the answer is written back, or the catch flips
\* Enabled.
onToggleResume ==
  /\ swCalls # <<>>
  /\ Head(swCalls).state # "sent"
  /\ LET c == Head(swCalls)
     IN  swShown' = [swShown EXCEPT ![c.switch] = AfterAwait(c, swShown[c.switch])]
  /\ swCalls' = Tail(swCalls)
  /\ swAnswered' = swAnswered + 1
  /\ UNCHANGED <<swPersisted, swLeft>>

SwNext ==
  \/ \E t \in Switches : onToggleCall(t)
  \/ \E outcome \in {"ok", "error"} : BackendSetEnabled(outcome)
  \/ onToggleResume

(***************************************************************************)
(* Dashboard (Dashboard.vue): the 'metrics' subscription, the polling      *)
(* fallback and the heartbeat.  Both heartbeat conditions start polling    *)
(* once the event timeout has passed, whether an event was ever received   *)
(* or not, so eventEverReceived and lastEventTime are left out and the     *)
(* timeout is taken as passed at a heartbeat of the model.                 *)
(***************************************************************************)
VARIABLES
  isActive,         \* props.isActive
  dashMounted,      \* the component has not been unmounted
  subscribed,       \* subscribed
  metricsUnlisten,  \* metricsUnlisten: the listener it unregisters, 0 for null
  listeners,        \* 'metrics' listeners registered with the event system
  pendingOn,        \* EventsOn promises not yet settled
  pollingTimer,     \* pollingTimer: a timer id, 0 for null
  timers,           \* polling timers set and not yet fired or cleared
  pollInFlight,     \* GetMetrics calls of poll() in flight
  heartbeat,        \* the heartbeat interval is running
  ids,              \* listener and timer ids handed out so far
  sinceEvent,       \* a 'metrics' event was handled and no timeout or failure since
  dashLeft          \* activations, deactivations and heartbeats left (bound)

dashVars == <<isActive, dashMounted, subscribed, metricsUnlisten, listeners, pendingOn,
              pollingTimer, timers, pollInFlight, heartbeat, ids, sinceEvent, dashLeft>>

DashInitWith(n) ==
  /\ isActive = FALSE
  /\ dashMounted = TRUE
  /\ subscribed = FALSE
  /\ metricsUnlisten = 0
  /\ listeners = {}
  /\ pendingOn = 0
  /\ pollingTimer = 0
  /\ timers = {}
  /\ pollInFlight = 0
  /\ heartbeat = FALSE
  /\ ids = 0
  /\ sinceEvent = FALSE
  /\ dashLeft = n

\* stopPolling
stopPolling ==
  /\ timers' = timers \ {pollingTimer}
  /\ pollingTimer' = 0

\* poll(): stops when inactive, otherwise calls GetMetrics.
poll(pending) ==
  IF ~isActive
    THEN /\ timers' = pending \ {pollingTimer}
         /\ pollingTimer' = 0
         /\ pollInFlight' = pollInFlight
    ELSE /\ timers' = pending
         /\ pollingTimer' = pollingTimer
         /\ pollInFlight' = pollInFlight + 1

\* startPolling
startPolling ==
  IF pollingTimer # 0
    THEN UNCHANGED <<pollingTimer, timers, pollInFlight>>
    ELSE poll(timers)

\* stopSubscription
stopSubscription ==
  /\ listeners' = listeners \ {metricsUnlisten}
  /\ metricsUnlisten' = 0
  /\ subscribed' = FALSE

\* watch(isActive), active: startSubscription up to EventsOn, startHeartbeat.
Activate ==
  /\ UNCHANGED sinceEvent
  /\ dashMounted /\ ~isActive
  /\ dashLeft > 0
  /\ dashLeft' = dashLeft - 1
  /\ isActive' = TRUE
  /\ pendingOn' = IF subscribed THEN pendingOn ELSE pendingOn + 1
  /\ heartbeat' = TRUE
  /\ UNCHANGED <<dashMounted, subscribed, metricsUnlisten, listeners, pollingTimer, timers,
                 pollInFlight, ids>>

\* watch(isActive), inactive.
Deactivate ==
  /\ UNCHANGED sinceEvent
  /\ dashMounted /\ isActive
  /\ dashLeft > 0
  /\ dashLeft' = dashLeft - 1
  /\ isActive' = FALSE
  /\ stopPolling
  /\ stopSubscription
  /\ heartbeat' = FALSE
  /\ UNCHANGED <<dashMounted, pendingOn, pollInFlight, ids>>

onBeforeUnmount ==
  /\ UNCHANGED sinceEvent
  /\ dashMounted
  /\ dashMounted' = FALSE
  /\ stopPolling
  /\ stopSubscription
  /\ heartbeat' = FALSE
  /\ UNCHANGED <<isActive, pendingOn, pollInFlight, ids, dashLeft>>

\* EventsOn resolves: the listener is registered, then() keeps its unlisten.
EventsOnResolved ==
  /\ UNCHANGED sinceEvent
  /\ pendingOn > 0
  /\ pendingOn' = pendingOn - 1
  /\ ids' = ids + 1
  /\ listeners' = listeners \cup {ids + 1}
  /\ metricsUnlisten' = ids + 1
  /\ subscribed' = TRUE
  /\ UNCHANGED <<isActive, dashMounted, pollingTimer, timers, pollInFlight, heartbeat,
                 dashLeft>>

\* EventsOn rejects: catch() starts the polling fallback.
EventsOnRejected ==
  /\ sinceEvent' = FALSE
  /\ pendingOn > 0
  /\ pendingOn' = pendingOn - 1
  /\ subscribed' = FALSE
  /\ startPolling
  /\ UNCHANGED <<isActive, dashMounted, metricsUnlisten, listeners, heartbeat, ids, dashLeft>>

\* GetMetrics of poll() has settled: the next poll is scheduled.
GetMetricsSettled ==
  /\ UNCHANGED sinceEvent
  /\ pollInFlight > 0
  /\ pollInFlight' = pollInFlight - 1
  /\ ids' = ids + 1
  /\ pollingTimer' = ids + 1
  /\ timers' = timers \cup {ids + 1}
  /\ UNCHANGED <<isActive, dashMounted, subscribed, metricsUnlisten, listeners, pendingOn,
                 heartbeat, dashLeft>>

\* A polling timer fires: poll().
PollingTimerFires(id) ==
  /\ UNCHANGED sinceEvent
  /\ id \in timers
  /\ ids < MaxDashIds
  /\ poll(timers \ {id})
  /\ UNCHANGED <<isActive, dashMounted, subscribed, metricsUnlisten, listeners, pendingOn,
                 heartbeat, ids, dashLeft>>

\* The heartbeat finds the subscription silent for longer than the timeout.
HeartbeatTimeout ==
  /\ sinceEvent' = FALSE
  /\ heartbeat /\ isActive /\ subscribed
  /\ dashLeft > 0
  /\ dashLeft' = dashLeft - 1
  /\ startPolling
  /\ UNCHANGED <<isActive, dashMounted, subscribed, metricsUnlisten, listeners, pendingOn,
                 heartbeat, ids>>

\* onMetrics: a pushed 'metrics' event reaches a registered listener.
onMetrics ==
  /\ listeners # {}
  /\ dashLeft > 0
  /\ dashLeft' = dashLeft - 1
  /\ stopPolling
  /\ sinceEvent' = TRUE
  /\ UNCHANGED <<isActive, dashMounted, subscribed, metricsUnlisten, listeners, pendingOn,
                 pollInFlight, heartbeat, ids>>

DashNext ==
  \/ Activate
  \/ Deactivate
  \/ onBeforeUnmount
  \/ EventsOnResolved
  \/ EventsOnRejected
  \/ GetMetricsSettled
  \/ \E id \in timers : PollingTimerFires(id)
  \/ HeartbeatTimeout
  \/ onMetrics

(***************************************************************************)
(* Specifications: one per subsystem, the others held idle.                *)
(***************************************************************************)
sideVars == <<launchVars, wsVars, swVars, dashVars, termsVars, runVars, rangeVars, histVars>>
pageVars == <<setVars, appVars, sideVars>>
vars == <<supVars, reqVars, acVars, matchVars, snapVars, cfgVars, streamVars, pageVars>>

CfgIdle == CfgInitWith({<<>>}, 0)
StreamIdle == StreamInitWith({NoStream}, 0)
SetIdle == SetInitWith({EmptyConfig}, 0)
WsIdle == WsInitWith(0)
AppIdle == AppInitWith({FALSE})
DashIdle == DashInitWith(0)
SideIdle == LaunchIdle /\ WsIdle /\ SwIdle /\ DashIdle /\ TermsIdle /\ RunIdle /\ RangeIdle /\ HistIdle
PagesIdle == SetIdle /\ AppIdle /\ SideIdle

\* The HTTP editor filled from a valid configuration and left alone.
CfgReady ==
  /\ loaded = <<ValidRule>>
  /\ rules = LoadRules(<<ValidRule>>)
  /\ mounted = TRUE
  /\ edited = FALSE
  /\ editsLeft = 0
  /\ saving = FALSE
  /\ lastSave = NoSave
  /\ saveCalls = <<>>
  /\ dateNow = 0

CoreIdle == SupIdle /\ ReqIdle /\ MatchIdle /\ SnapIdle
EditorsIdle == CfgIdle /\ StreamIdle /\ PagesIdle

SupStep == SupNext /\ UNCHANGED <<reqVars, acVars, matchVars, snapVars, cfgVars, streamVars, pageVars>>
ReqStep == ReqNext /\ UNCHANGED <<supVars, matchVars, snapVars, cfgVars, streamVars, pageVars>>
TrafficStep == TrafficNext /\ UNCHANGED <<supVars, matchVars, snapVars, cfgVars, streamVars, pageVars>>
MatchStep == MatchNext /\ UNCHANGED <<supVars, reqVars, acVars, snapVars, cfgVars, streamVars, pageVars>>
SnapStep == SnapNext /\ UNCHANGED <<supVars, reqVars, acVars, matchVars, cfgVars, streamVars, pageVars>>
CfgStep == CfgNext /\ UNCHANGED <<supVars, reqVars, acVars, matchVars, snapVars, sideVars>>
RoundTripStep == RoundTripNext /\ UNCHANGED <<supVars, reqVars, acVars, matchVars, snapVars, sideVars>>
IdsStep == IdsNext /\ UNCHANGED <<supVars, reqVars, acVars, matchVars, snapVars, streamVars, pageVars>>
StreamStep == StreamSaveNext /\ UNCHANGED <<supVars, reqVars, acVars, matchVars, snapVars, sideVars>>

InitSupervisor == SupInit /\ ReqIdle /\ MatchIdle /\ SnapIdle /\ EditorsIdle
SpecSupervisor == InitSupervisor /\ [][SupStep]_vars

\* Access control under every AccessConfig, with one rate limit.
InitAccess ==
  /\ ReqInitWith(AccessConfigs, {DefaultRate}, MaxAccessRequests, MaxAccessTicks, MaxAdds)
  /\ SupIdle /\ MatchIdle /\ SnapIdle /\ EditorsIdle
SpecAccess == InitAccess /\ [][ReqStep]_vars

\* The rate limiter under every rate limit, with access control off.
InitRateLimit ==
  /\ ReqInitWith({[DefaultAccess EXCEPT !.enabled = [p \in Protocols |-> FALSE]]},
                 RateConfigs, MaxRequests, MaxTicks, 0)
  /\ SupIdle /\ MatchIdle /\ SnapIdle /\ EditorsIdle
SpecRateLimit == InitRateLimit /\ [][TrafficStep]_vars

\* The route matcher over every list of routes and every request.
InitMatch == MatchInitWith(RouteLists) /\ SupIdle /\ ReqIdle /\ SnapIdle /\ EditorsIdle
SpecMatch == InitMatch /\ [][MatchStep]_vars

\* Snapshot publication with requests in flight.
InitSnapshot == SnapInitWith(MaxInflight) /\ SupIdle /\ ReqIdle /\ MatchIdle /\ EditorsIdle
SpecSnapshot == InitSnapshot /\ [][SnapStep]_vars

\* The HTTP editor loaded with every validated one-rule configuration and
\* saved without an edit.
InitRoundTrip == CfgInitWith(ValidatedConfigs, 0) /\ StreamIdle /\ CoreIdle /\ PagesIdle
SpecRoundTrip == InitRoundTrip /\ [][RoundTripStep]_vars

\* The HTTP editor under the user's edits.
InitConfigCard == CfgInitWith(EditConfigs, MaxEdits) /\ StreamIdle /\ CoreIdle /\ PagesIdle
SpecConfigCard == InitConfigCard /\ [][CfgStep]_vars

\* The HTTP editor under additions and removals of rules and routes.
InitIds == CfgInitWith({<<ValidRule>>}, MaxIdEdits) /\ StreamIdle /\ CoreIdle /\ PagesIdle
SpecIds == InitIds /\ [][IdsStep]_vars

\* The settings pages over every loaded configuration.
SetStep == SetNext /\ UNCHANGED <<supVars, reqVars, acVars, matchVars, snapVars, cfgVars, streamVars,
                               appVars, sideVars>>
InitSettings ==
  SetInitWith(ConfigDatas, MaxSwitches) /\ AppIdle /\ SideIdle /\ CoreIdle /\ CfgIdle /\ StreamIdle
SpecSettings == InitSettings /\ [][SetStep]_vars

\* The launch of the application with auto_start on, off and absent.
AutoStartConfigs == {[EmptyConfig EXCEPT !.auto_start = v] : v \in Tristate}
LaunchStep == LaunchNext /\ UNCHANGED <<reqVars, acVars, matchVars, snapVars, cfgVars, streamVars,
                                     setVars, appVars, wsVars, swVars, dashVars, termsVars, runVars, rangeVars, histVars>>
InitLaunch ==
  /\ SupInit /\ LaunchInit /\ SetInitWith(AutoStartConfigs, 0) /\ AppIdle /\ WsIdle /\ SwIdle /\ DashIdle /\ TermsIdle /\ RunIdle /\ RangeIdle /\ HistIdle
  /\ ReqIdle /\ MatchIdle /\ SnapIdle /\ CfgIdle /\ StreamIdle
SpecLaunch == InitLaunch /\ [][LaunchStep]_vars

\* The launch with the terms of use: a process that starts with the flag
\* stored or not.
TermsStep == TermsNext /\ UNCHANGED <<reqVars, acVars, matchVars, snapVars, cfgVars, streamVars,
                                     setVars, appVars, wsVars, swVars, dashVars, runVars, rangeVars, histVars>>
InitTerms ==
  /\ SupInit /\ LaunchInit /\ TermsInitWith(BOOLEAN) /\ SetIdle /\ AppIdle /\ WsIdle /\ SwIdle
  /\ DashIdle /\ RunIdle /\ RangeIdle /\ HistIdle /\ ReqIdle /\ MatchIdle /\ SnapIdle /\ CfgIdle /\ StreamIdle
SpecTerms == InitTerms /\ [][TermsStep]_vars

\* start() under clicks on the start button and the timer of the automatic
\* start, in an initialized app.
RunStep == RunNext /\ UNCHANGED <<reqVars, acVars, matchVars, snapVars, cfgVars, streamVars,
                                 setVars, appVars, wsVars, swVars, dashVars, termsVars, rangeVars, histVars>>
InitRuns ==
  /\ SupInit /\ enabledL \subseteq {1} /\ RunInit /\ launchPc = "done" /\ autoTimer = TRUE /\ startCauses = <<>>
  /\ SetIdle /\ AppIdle /\ WsIdle /\ SwIdle /\ DashIdle /\ TermsIdle /\ RangeIdle /\ HistIdle
  /\ ReqIdle /\ MatchIdle /\ SnapIdle /\ CfgIdle /\ StreamIdle
SpecRuns == InitRuns /\ [][RunStep]_vars

\* The time ranges of the two query pages.
RangeStep == RangeNext /\ UNCHANGED <<supVars, reqVars, acVars, matchVars, snapVars, cfgVars,
                                     streamVars, setVars, appVars, launchVars, wsVars, swVars,
                                     dashVars, termsVars, runVars, histVars>>
InitRanges ==
  /\ RangeInitWith(MaxPicks) /\ CoreIdle /\ CfgIdle /\ StreamIdle /\ SetIdle /\ AppIdle
  /\ LaunchIdle /\ WsIdle /\ SwIdle /\ DashIdle /\ TermsIdle /\ RunIdle /\ HistIdle
SpecRanges == InitRanges /\ [][RangeStep]_vars

\* The statistics of the dashboard under historical and realtime data.
HistStep == HistNext /\ UNCHANGED <<supVars, reqVars, acVars, matchVars, snapVars, cfgVars,
                                   streamVars, setVars, appVars, launchVars, wsVars, swVars,
                                   dashVars, termsVars, runVars, rangeVars>>
InitHistory ==
  /\ HistInit /\ CoreIdle /\ CfgIdle /\ StreamIdle /\ SetIdle /\ AppIdle
  /\ LaunchIdle /\ WsIdle /\ SwIdle /\ DashIdle /\ TermsIdle /\ RunIdle /\ RangeIdle
SpecHistory == InitHistory /\ [][HistStep]_vars

\* The paths typed into the HTTP editor and into the WebSocket editor.
PathsNext ==
  \/ onMounted /\ UNCHANGED wsVars
  \/ \E i \in RuleIndexes : \E j \in RouteIndexes(i) : \E p \in PathInputs :
       InputPath(i, j, p) /\ UNCHANGED wsVars
  \/ \E i \in RuleIndexes : \E j \in RouteIndexes(i) : \E p \in PathInputs :
       InputProxyPassPath(i, j, p) /\ UNCHANGED wsVars
  \/ WsNext /\ UNCHANGED cfgVars
PathsStep == PathsNext /\ UNCHANGED <<supVars, reqVars, acVars, matchVars, snapVars, streamVars,
                                   setVars, appVars, launchVars, swVars, dashVars, termsVars, runVars, rangeVars, histVars>>
InitPaths ==
  /\ CfgInitWith({<<ValidRule>>}, MaxPathEdits) /\ WsInitWith(MaxWsEdits)
  /\ StreamIdle /\ CoreIdle /\ SetIdle /\ AppIdle /\ LaunchIdle /\ SwIdle /\ DashIdle /\ TermsIdle /\ RunIdle /\ RangeIdle /\ HistIdle
SpecPaths == InitPaths /\ [][PathsStep]_vars

\* Saving between starts and stops of the service.
SaveNext ==
  \/ SupNext /\ UNCHANGED <<cfgVars, streamVars, setVars, appVars>>
  \/ ClickSave /\ UNCHANGED supVars
  \/ \E answer \in SaveAnswers : SaveConfigReturn(answer) /\ UNCHANGED supVars
  \/ RefreshGlobalConfig /\ UNCHANGED <<supVars, cfgVars, streamVars>>
SaveStep == SaveNext /\ UNCHANGED <<reqVars, acVars, matchVars, snapVars, sideVars>>
InitSave ==
  /\ SupInit /\ CfgReady /\ StreamIdle /\ PagesIdle
  /\ ReqIdle /\ MatchIdle /\ SnapIdle
SpecSave == InitSave /\ [][SaveStep]_vars

\* Saving from editors whose getConfig may throw.
SaveThrowNext ==
  \/ onMounted /\ UNCHANGED <<streamVars, setVars, appVars, wsVars>>
  \/ (\E i \in RuleIndexes : \E j \in RouteIndexes(i) : \E k \in UpstreamIndexes(i, j) :
        \E url \in UrlInputs : InputUpstreamURL(i, j, k, url))
       /\ UNCHANGED <<streamVars, setVars, appVars, wsVars>>
  \/ (\E cfg \in {[ws_proxy_enabled |-> "true", ws_proxy |-> <<>>]} : wsOnMounted(cfg))
       /\ UNCHANGED <<cfgVars, streamVars, setVars, appVars>>
  \/ (\E i \in WsRuleIndexes : \E j \in WsRouteIndexes(i) : \E u \in {<<>>, WsUrl} :
        InputWsUpstreamUrl(i, j, u))
       /\ UNCHANGED <<cfgVars, streamVars, setVars, appVars>>
  \/ streamOnMounted /\ UNCHANGED <<cfgVars, setVars, appVars, wsVars>>
  \/ (\E i \in 1..Len(upstreams) : \E name \in NameInputs : InputUpstreamName(i, name))
       /\ UNCHANGED <<cfgVars, setVars, appVars, wsVars>>
  \/ baseOnMounted /\ UNCHANGED <<cfgVars, streamVars, appVars, wsVars>>
  \/ SwitchBase("autoStart") /\ UNCHANGED <<cfgVars, streamVars, appVars, wsVars>>
  \/ ClickSave /\ UNCHANGED wsVars
  \/ \E answer \in SaveAnswers : SaveConfigReturn(answer) /\ UNCHANGED wsVars
  \/ RefreshGlobalConfig /\ UNCHANGED <<cfgVars, streamVars, wsVars>>
SaveThrowStep == SaveThrowNext /\ UNCHANGED <<supVars, reqVars, acVars, matchVars, snapVars,
                                           launchVars, swVars, dashVars, termsVars, runVars, rangeVars, histVars>>
InitSaveThrow ==
  /\ CfgInitWith({<<ValidRule>>}, MaxSaveEdits) /\ WsInitWith(MaxSaveEdits)
  /\ StreamInitWith({ValidStream}, MaxSaveEdits) /\ SetInitWith({EmptyConfig}, MaxSaveEdits)
  /\ AppInitWith(BOOLEAN) /\ LaunchIdle /\ SwIdle /\ DashIdle /\ CoreIdle /\ TermsIdle /\ RunIdle /\ RangeIdle /\ HistIdle
SpecSaveThrow == InitSaveThrow /\ [][SaveThrowStep]_vars

\* The enable switches with overlapping calls.
SwStep == SwNext /\ UNCHANGED <<supVars, reqVars, acVars, matchVars, snapVars, cfgVars, streamVars,
                             setVars, appVars, launchVars, wsVars, dashVars, termsVars, runVars, rangeVars, histVars>>
InitSwitches ==
  /\ SwInitWith(MaxToggles) /\ CoreIdle /\ CfgIdle /\ StreamIdle
  /\ SetIdle /\ AppIdle /\ LaunchIdle /\ WsIdle /\ DashIdle /\ TermsIdle /\ RunIdle /\ RangeIdle /\ HistIdle
SpecSwitches == InitSwitches /\ [][SwStep]_vars

\* The dashboard switched between active and inactive.
DashStep == DashNext /\ UNCHANGED <<supVars, reqVars, acVars, matchVars, snapVars, cfgVars,
                                 streamVars, setVars, appVars, launchVars, wsVars, swVars, termsVars, runVars, rangeVars, histVars>>
InitDashboard ==
  /\ DashInitWith(MaxDashSteps) /\ CoreIdle /\ CfgIdle /\ StreamIdle
  /\ SetIdle /\ AppIdle /\ LaunchIdle /\ WsIdle /\ SwIdle /\ TermsIdle /\ RunIdle /\ RangeIdle /\ HistIdle
SpecDashboard == InitDashboard /\ [][DashStep]_vars

\* The stream editor under the user's edits, beside a valid HTTP editor.
InitStream == StreamInitWith({NoStream, ValidStream}, MaxStreamEdits) /\ CfgReady /\ CoreIdle /\ PagesIdle
SpecStream == InitStream /\ [][StreamStep]_vars

\* The stream editor loaded with two upstreams and a server for each, on
\* two ports.
TwoUpstreamStream ==
  [ValidStream EXCEPT
     !.upstreams = Append(@, [name |-> <<"w">>, servers |-> <<[addr |-> <<"h", ":", "1">>]>>]),
     !.servers = Append(@, [defaultServer EXCEPT !.proxy_pass = <<"w">>, !.listen_port = 1])]

InitStreamPorts ==
  StreamInitWith({TwoUpstreamStream}, MaxPortEdits) /\ CfgReady /\ CoreIdle /\ PagesIdle
SpecStreamPorts == InitStreamPorts /\ [][StreamStep]_vars

Init == InitSupervisor
Next == SupStep
Spec == Init /\ [][Next]_vars

InFlightErrors(l) ==
  Cardinality({i \in 1..Len(events) :
                 events[i].type = "server-start-error" /\ events[i].listen_addr = l})

C2_DeniedEverAfter ==
  (lastReq.outcome # "none" /\ lastReq.added /\ accessCfg.enabled[lastReq.proto])
    => /\ lastReq.outcome = "denied"
       /\ ~lastReq.limiter
       /\ lastReq.tokensAfter = lastReq.tokensBefore
       /\ lastReq.banAfter = lastReq.banBefore

\* C2 (amended): while the entry added for ip is active (permanent or not yet
\* expired, and not removed), every request of ip on a protocol whose toggle
\* is on is denied at the access-control step, before the rate limiter: no
\* token is deducted and no ban entry is created.
C2_DeniedWhileActive ==
  (lastReq.outcome # "none" /\ lastReq.blacklisted /\ accessCfg.enabled[lastReq.proto])
    => /\ lastReq.outcome = "denied"
       /\ ~lastReq.limiter
       /\ lastReq.tokensAfter = lastReq.tokensBefore
       /\ lastReq.banAfter = lastReq.banBefore

C2_Witness ==
  /\ lastReq.blacklisted
  /\ lastReq.proto = "http"
  /\ accessCfg.enabled["http"]
  /\ accessCfg.allow_all_public
  /\ lastReq.outcome = "denied"
  /\ lastReq.ip \in everAdded
  /\ addPc = "idle"

WindowMs == WindowSeconds * MsPerSec

ServedIn(ip, t) ==
  Cardinality({i \in 1..Len(servedLog[ip]) :
                 t <= servedLog[ip][i] /\ servedLog[ip][i] <= t + WindowMs})

RateBound == rateCfg.burst + rateCfg.rps * WindowSeconds

BannedRejectedFree ==
  lastReq.banned =>
    /\ lastReq.outcome = "banned"
    /\ lastReq.tokensAfter = lastReq.tokensBefore
    /\ lastReq.banAfter = lastReq.banBefore

\* C3 as stated: in every 1-second window a client is served at most
\* burst + rps * windowSeconds requests, and a banned client is rejected
\* without a token being deducted until its ban has passed.
C3_BoundEveryWindow ==
  /\ \A ip \in Clients : \A i \in 1..Len(servedLog[ip]) :
       ServedIn(ip, servedLog[ip][i]) <= RateBound
  /\ BannedRejectedFree

\* C3 (amended): in every 1-second window during which the client's entry is
\* not evicted from the size-bounded table, the client is served at most
\* burst + rps * windowSeconds requests; and a client that is in the ban map
\* is rejected without a token being deducted until its ban has passed.
C3_BoundUnlessEvicted ==
  /\ \A ip \in Clients : \A i \in 1..Len(servedLog[ip]) :
       (\A u \in evictLog[ip] : u < servedLog[ip][i] \/ u > servedLog[ip][i] + WindowMs)
         => ServedIn(ip, servedLog[ip][i]) <= RateBound
  /\ BannedRejectedFree

C3_Witness ==
  /\ lastReq.banned
  /\ lastReq.outcome = "banned"
  /\ evictLog[lastReq.ip] = {}
  /\ Len(servedLog[lastReq.ip]) > 0
  /\ ServedIn(lastReq.ip, servedLog[lastReq.ip][1]) = RateBound

Rows == {ip \in Clients : blacklistUI[ip] # NoEntry}

\* C6: a row of the blacklist table is shown as active ('permanent' or
\* 'valid') exactly when expires_at = 0 or now < expires_at.
C6_TagAgrees ==
  \A ip \in Rows :
    (ExpiryTag(blacklistUI[ip]) \in {"permanent", "valid"})
      <=> (blacklistUI[ip] = 0 \/ now < blacklistUI[ip] * MsPerSec)
Survivors == {i \in 1..Len(routes) : Survives(routes[i], matchReq)}

\* C4: the matcher's answer is, among the enabled routes that match the
\* request's host, method, required header and path, the one with the
\* longest path prefix, the earliest declared among equally long ones, and
\* NoMatch exactly when no enabled route matches.
C4_LongestThenEarliest ==
  matchPc = "done" =>
    IF Survivors = {}
    THEN matchResult = NoMatch
    ELSE /\ matchResult.route \in Survivors
         /\ matchResult.matched_prefix = routes[matchResult.route].path
         /\ \A j \in Survivors :
              \/ Len(routes[j].path) < Len(matchResult.matched_prefix)
              \/ /\ Len(routes[j].path) = Len(matchResult.matched_prefix)
                 /\ matchResult.route <= j

C4_Witness ==
  /\ matchPc = "done"
  /\ Survivors = {1, 2}
  /\ Len(routes[1].path) = Len(routes[2].path)
  /\ routes[1] # routes[2]
  /\ matchResult.route = 1

\* C5: a request in flight keeps the snapshot it captured at its start:
\* its handle is the pointer's value at acceptance, and every binding it has
\* made (route, then auth, then transformer) is that snapshot's, whatever
\* has been published since.
C5_CapturedView ==
  \A r \in Requests :
    inflight[r].phase # "idle" =>
      /\ inflight[r].handle = inflight[r].acceptedAt
      /\ inflight[r].handle \in 1..Len(snapshots)
      /\ inflight[r].phase \in {"routed", "authed", "transformed", "done"}
           => inflight[r].route = snapshots[inflight[r].handle].route
      /\ inflight[r].phase \in {"authed", "transformed", "done"}
           => inflight[r].auth = snapshots[inflight[r].handle].auth
      /\ inflight[r].phase \in {"transformed", "done"}
           => inflight[r].transformer = snapshots[inflight[r].handle].transformer

C5_Witness ==
  \E r, q \in Requests :
    /\ inflight[r].phase = "done"
    /\ inflight[r].handle = 1
    /\ inflight[r].gen = listenerGen
    /\ Len(snapshots) = 2
    /\ snapshots[2].route # snapshots[1].route
    /\ snapshots[2].auth # snapshots[1].auth
    /\ snapshots[2].transformer # snapshots[1].transformer
    /\ inflight[q].phase = "done"
    /\ inflight[q].handle = 2
    /\ inflight[q].route = snapshots[2].route
Documented(rt) ==
  [host |-> rt.host, path |-> rt.path, methods |-> rt.methods, headers |-> rt.headers,
   proxy_pass_path |-> rt.proxy_pass_path, static_dir |-> rt.static_dir,
   set_headers |-> rt.set_headers, response_body_replace |-> rt.response_body_replace,
   upstreams |-> rt.upstreams]

SavedRules == saveCalls[Len(saveCalls)].rules

\* C7: a validated configuration loaded into the HTTP rule editor and saved
\* without an edit is emitted by getConfig with every documented route
\* field (host, path, methods, headers, proxy_pass_path, static_dir,
\* set_headers, body-replace rules with content_types, upstreams) unchanged.
C7_RoundTrip ==
  (mounted /\ ~edited /\ lastSave.called /\ lastSave.input = rules) =>
    /\ Len(SavedRules) = Len(loaded)
    /\ \A i \in 1..Len(loaded) :
         /\ Len(SavedRules[i].routes) = Len(loaded[i].routes)
         /\ \A j \in 1..Len(loaded[i].routes) :
              Documented(SavedRules[i].routes[j]) = Documented(loaded[i].routes[j])

Emitted == {saveCalls[n].rules : n \in 1..Len(saveCalls)}

\* C9: every enabled rule of a configuration returned by getConfig has a
\* non-empty listen_addrs list without blank entries and at least one
\* enabled route.
C9_EnabledRuleServable ==
  \A rs \in Emitted : \A i \in 1..Len(rs) :
    rs[i].enabled =>
      /\ Len(rs[i].listen_addrs) > 0
      /\ \A a \in 1..Len(rs[i].listen_addrs) : Trim(rs[i].listen_addrs[a]) # <<>>
      /\ \E j \in 1..Len(rs[i].routes) : rs[i].routes[j].enabled

Servable(rt) ==
  \/ \E k \in 1..Len(rt.upstreams) : rt.upstreams[k].url # <<>>
  \/ rt.static_dir # <<>>

EditorServable(rt) ==
  \/ \E k \in 1..Len(rt.Upstreams) : Trim(rt.Upstreams[k].URL) # <<>>
  \/ Trim(rt.StaticDir) # <<>>

\* C10: every route of every configuration returned by getConfig has an
\* upstream with a non-empty URL or a non-empty static_dir, and a run of
\* handleSaveConfig over an editor holding a route with neither ends in
\* getConfig's error without SaveConfig being called.
C10_RouteServable ==
  /\ \A rs \in Emitted : \A i \in 1..Len(rs) : \A j \in 1..Len(rs[i].routes) :
       Servable(rs[i].routes[j])
  /\ (\E i \in 1..Len(lastSave.input) : \E j \in 1..Len(lastSave.input[i].Routes) :
        ~EditorServable(lastSave.input[i].Routes[j]))
       => ~lastSave.ok /\ ~lastSave.called /\ lastSave.error # ""

C10_Witness ==
  /\ Len(saveCalls) = 1
  /\ \E i \in 1..Len(SavedRules) : \E j \in 1..Len(SavedRules[i].routes) :
       SavedRules[i].routes[j].static_dir # <<>> /\ SavedRules[i].routes[j].upstreams = <<>>
  /\ lastSave.error = "routeNoUpstreamOrStatic"
  /\ ~lastSave.called
  /\ ~saving

SavedStreams == {saveCalls[n].stream : n \in 1..Len(saveCalls)}

UpstreamNames(st) == {st.upstreams[k].name : k \in 1..Len(st.upstreams)}

\* C8 as stated: in every stream configuration getConfig returns, each
\* server's proxy_pass is the name of an upstream of that configuration.
C8_EveryServerResolves ==
  \A st \in SavedStreams : \A i \in 1..Len(st.servers) :
    st.servers[i].proxy_pass \in UpstreamNames(st)

\* C8 (amended): in every stream configuration getConfig returns with stream
\* enabled, each enabled server's proxy_pass is the name of an upstream of
\* that configuration; and when an enabled server of an enabled stream
\* section names no upstream, getConfig throws and SaveConfig is not called.
C8_EnabledServerResolves ==
  /\ \A st \in SavedStreams : \A i \in 1..Len(st.servers) :
       (st.enabled /\ st.servers[i].enabled)
         => st.servers[i].proxy_pass \in UpstreamNames(st)
  /\ (lastSave.error # "none" /\ lastSave.stream.enabled
        /\ \E i \in 1..Len(lastSave.stream.servers) :
             /\ lastSave.stream.servers[i].enabled
             /\ Trim(lastSave.stream.servers[i].proxy_pass)
                  \notin {Trim(lastSave.stream.upstreams[k].name) :
                            k \in 1..Len(lastSave.stream.upstreams)})
       => ~lastSave.ok /\ ~lastSave.called

C8_Witness ==
  /\ Len(saveCalls) = 1
  /\ saveCalls[1].stream.enabled
  /\ \E i \in 1..Len(saveCalls[1].stream.servers) : saveCalls[1].stream.servers[i].enabled
  /\ lastSave.error = "proxyPassUnknown"
  /\ ~lastSave.called
Distinct(xs) == \A a, b \in 1..Len(xs) : (a # b /\ xs[a] # <<>>) => xs[a] # xs[b]

\* C11: in what getConfig emits for the editor's rules, no two rules carry
\* the same id and no two routes of one rule carry the same id.
C11_IdsUnique ==
  LET cfg == getConfig(rules)
  IN  cfg.ok =>
        /\ Distinct([i \in 1..Len(cfg.rules) |-> cfg.rules[i].id])
        /\ \A i \in 1..Len(cfg.rules) :
             Distinct([j \in 1..Len(cfg.rules[i].routes) |-> cfg.rules[i].routes[j].id])
DocumentedFalse == {"ws_access_control_enabled", "enable_http2", "show_realtime_logs"}

\* The values the settings pages write back on save.
WrittenBack == [f \in DocumentedFalse |->
                 IF f = "ws_access_control_enabled" THEN accessGetConfig[f]
                 ELSE baseGetConfig[f]]

\* C12: once a page has loaded a configuration without ws_access_control_enabled,
\* enable_http2 or show_realtime_logs, and the user has not moved that switch, the
\* value the page shows and writes back is the documented default, false.
C12_AbsentIsDocumentedDefault ==
  /\ (globalConfig = configData /\ globalConfig # EmptyConfig
        /\ configData.ws_access_control_enabled = "undefined"
        /\ "ws_access_control_enabled" \notin touched)
       => ~WrittenBack["ws_access_control_enabled"]
  /\ (baseMounted /\ configData.enable_http2 = "undefined" /\ "enableHttp2" \notin touched)
       => ~WrittenBack["enable_http2"]
  /\ (baseMounted /\ configData.show_realtime_logs = "undefined"
        /\ "showRealtimeLogs" \notin touched)
       => ~WrittenBack["show_realtime_logs"]
\* C13: with auto_start = false in the configuration, StartServer is called
\* only by a click on the start button, never by the launch itself.
C13_AutoStartOnlyIfConfigured ==
  configData.auto_start = "false" =>
    \A i \in 1..Len(startCauses) : startCauses[i] = "click"
Normalized(p) == p # <<>> /\ Head(p) = "/"

\* C14: every route path the HTTP editor and the WebSocket editor return from
\* getConfig is non-empty and begins with "/", whatever was typed; a returned
\* proxy_pass_path is absent (empty) or begins with "/".
C14_PathsNormalized ==
  LET http == getConfig(rules)
      ws == wsGetConfig(wsProxyEnabled, wsRules)
  IN  /\ http.ok =>
            \A i \in 1..Len(http.rules) : \A j \in 1..Len(http.rules[i].routes) :
               LET rt == http.rules[i].routes[j]
               IN  /\ Normalized(rt.path)
                   /\ rt.proxy_pass_path = <<>> \/ Normalized(rt.proxy_pass_path)
      /\ ws.ok =>
            \A i \in 1..Len(ws.config.ws_proxy) :
              \A j \in 1..Len(ws.config.ws_proxy[i].routes) :
                Normalized(ws.config.ws_proxy[i].routes[j].path)

\* Paths without a leading "/" and blank ones have been typed into both
\* editors, and both getConfig return a configuration.
C14_Witness ==
  /\ mounted /\ Len(rules) > 0
  /\ rules[1].Routes[1].Path = <<" ", "a">>
  /\ rules[1].Routes[1].ProxyPassPath = <<"a", " ">>
  /\ getConfig(rules).ok
  /\ \E i \in WsRuleIndexes : \E j \in WsRouteIndexes(i) : wsRules[i].routes[j].path \in {<<>>, <<"a">>}
  /\ wsGetConfig(wsProxyEnabled, wsRules).ok
\* Nothing of the UI is in flight: start() has returned and every event the
\* backend has emitted has been handled.
Quiescent == startPc = "idle" /\ ~starting /\ events = <<>>

\* C15: whenever no start() is in progress and no event is pending, the
\* status the UI displays is the one get_status reports.
C15_StatusAgrees == Quiescent => uiStatus = GetStatus
Throws ==
  ~(/\ getConfig(rules).ok
    /\ wsGetConfig(wsProxyEnabled, wsRules).ok
    /\ streamGetConfig(streamEnabled, upstreams, servers).ok)

\* C17: a handleSaveConfig in which getConfig of the HTTP, the WebSocket or
\* the stream editor throws calls SaveConfig not at all, leaves globalConfig
\* and the autostart registration as they were, and ends with saving false.
C17_ThrowSavesNothing ==
  [][(Throws /\ lastSave' # lastSave) =>
       /\ saveCalls' = saveCalls
       /\ globalConfig' = globalConfig
       /\ autostartEnabled' = autostartEnabled
       /\ ~saving']_vars

\* After a first save that went through, the WebSocket editor's getConfig
\* has thrown in the second.
C17_Witness ==
  /\ lastSave.error = "wsUpstreamEmpty"
  /\ Len(saveCalls) = 1
  /\ globalConfig # EmptyConfig
  /\ ~saving
\* C18: once every toggle handler has finished, each switch shows the
\* enabled state the backend has persisted.
C18_ShownIsPersisted ==
  (swCalls = <<>> /\ swAnswered > 0) => swShown = swPersisted
\* C19: when the dashboard is inactive or unmounted and no EventsOn or
\* GetMetrics promise is pending, it has no 'metrics' listener registered, no
\* polling timer set and no heartbeat running.
C19_IdleWhenInactive ==
  ((~isActive \/ ~dashMounted) /\ pendingOn = 0 /\ pollInFlight = 0) =>
    (listeners = {} /\ timers = {} /\ ~heartbeat)

\* C20: at most one 'metrics' listener of the dashboard is registered.
C20_AtMostOneListener == Cardinality(listeners) <= 1
\* C21: from the handling of a 'metrics' event until the heartbeat observes
\* a timeout or the subscription fails, no polling timer is set.
C21_EventsStopPolling == sinceEvent => timers = {}
\* The ids of a rule list: each rule's id with the ids of its routes.
IdsOf(rs) ==
  [i \in 1..Len(rs) |->
     [id |-> rs[i].id,
      routes |-> [j \in 1..Len(rs[i].routes) |-> rs[i].routes[j].id]]]

\* C22: when a save has succeeded and the backend has filled ids the sent
\* rules lacked, the next save of the unedited editor sends the rules with
\* those ids.
C22_FilledIdsSentBack ==
  \A n \in 1..(Len(saveCalls) - 1) :
    ( /\ saveCalls[n].answer = "saved"
      /\ FillIds(saveCalls[n].rules) # saveCalls[n].rules
      /\ lastSave.called /\ lastSave.input = rules
      /\ n + 1 = Len(saveCalls)
      /\ Len(saveCalls[n + 1].rules) = Len(saveCalls[n].rules) ) =>
        IdsOf(saveCalls[n + 1].rules) = IdsOf(FillIds(saveCalls[n].rules))

\* The steps of initialization: initializeAppCore moves on, main.ts
\* subscribes to an event other than request-quit, initializeApp loads the
\* configuration, or the timer of the automatic start() is set.
InitializationStep ==
  \/ launchPc' # launchPc
  \/ (handlers' \ handlers) \ {"request-quit"} # {}
  \/ mainConfigLoaded' /\ ~mainConfigLoaded
  \/ autoTimer' /\ ~autoTimer

C24_StartedOnlyWhenRunning ==
  [][ \A i \in 1..Len(runs) :
        /\ (runs'[i].report = "success" \/ runs'[i].recorded) => runs'[i].sawRunning
        /\ (runs[i].pc = "awaitStart" /\ runs'[i].pc = "returned") => uiStatus' = uiStatus
        /\ (runs[i].pc = "returned" /\ runs'[i].pc # "returned") => uiStatus' # "running"
        /\ (runs[i].pc = "poll" /\ runs'[i].pc = "done" /\ ~runs'[i].sawRunning) =>
              runs'[i].report = "none" ]_vars

C24_Witness ==
  /\ \E i \in RunIndexes : runs[i].report = "success" /\ runs[i].sawRunning
  /\ \E i \in RunIndexes :
        runs[i].pc = "done" /\ runs[i].report = "none" /\ ~runs[i].sawRunning

\* C25: whatever the order of clicks on the start button and the timer of
\* the automatic start, at most one invocation of start() is waiting for
\* StartServer, and every end of an invocation (status running, deadline,
\* StartServer rejected) leaves starting false.
C25_OneStartInFlight ==
  [][ /\ Cardinality(InFlight') <= 1
      /\ \A i \in 1..Len(runs) :
            (runs[i].pc # "done" /\ runs'[i].pc = "done") => ~starting' ]_vars

\* The timer has fired while a click's StartServer was in flight, and the
\* three ways start() can end have all happened.
C25_Witness ==
  /\ ~autoTimer
  /\ \A i \in RunIndexes : runs[i].cause = "click" /\ runs[i].pc = "done"
  /\ \E i \in RunIndexes : runs[i].report = "success"
  /\ \E i \in RunIndexes : runs[i].report = "failure"
  /\ \E i \in RunIndexes : runs[i].report = "none"
  /\ ~starting

\* C26: handleAdd calls AddBlacklistEntry with 0 seconds exactly for a
\* permanent entry and with at least one second for a temporary one; when
\* the expiry chosen is not after Date.now() as handleAdd computes the
\* duration, no call is made and adding is false again.
C26_DurationMatchesType ==
  [][ (addPc = "validated" /\ addPc' # "validated") =>
        /\ addPc' = "calling" =>
              /\ adding'
              /\ addCall'.duration = 0 <=> addForm.durationType = "permanent"
              /\ addForm.durationType = "temporary" => addCall'.duration >= 1
        /\ (addForm.durationType = "temporary" /\ addForm.expiresAt <= now) =>
              /\ addPc' = "idle"
              /\ addCall' = addCall
              /\ ~adding' ]_vars

\* A temporary entry whose expiry passed between the validation of the
\* form and the computation of the duration, and which was not sent.
C26_Witness ==
  /\ addPc = "idle"
  /\ addForm.durationType = "temporary"
  /\ addForm.expiresAt <= now
  /\ addForm.expiresAt # NoEntry
  /\ addCall = NoCall
  /\ everAdded = {}
  /\ ~adding

\* C27: every QueryRequestLogs and QueryHistoricalMetrics request that is
\* sent carries start_time < end_time, in whole seconds.
C27_StartBeforeEnd ==
  lastQuery.sent => lastQuery.start_time < lastQuery.end_time

\* What the dashboard displays.
Displayed ==
  [totalReq |-> totalReq, successRate |-> successRate, errorRate |-> errorRate,
   avgLatency |-> avgLatency, topRouteErr |-> topRouteErr, topUpErr |-> topUpErr,
   alignedView |-> alignedView]

\* C28: while historicalData is non-null and stays as it is, a realtime
\* payload changes none of the values displayed.
C28_HistoricalOnly ==
  [][ (~historicalData.null /\ historicalData' = historicalData) =>
        Displayed' = Displayed ]_vars

====
